---------------------------- MODULE Spec2Model ----------------------------
(***************************************************************************)
(* Earnings-Volatility-Calculator (Experimental/Finviz-Parser/calculator.py)*)
(* A state-machine model of DataCache, ProxyManager, SessionManager,        *)
(* EnhancedEarningsScanner.scan_earnings_stocks and analyze_stock,          *)
(* OptionsAnalyzer.compute_recommendation and                               *)
(* EarningsCalendarFetcher.fetch_earnings_data.                             *)
(***************************************************************************)
EXTENDS Integers, Sequences, FiniteSets, TLC

VARIABLES
    store,          \* DataCache: the files of cache_dir, cache key -> payload
    now,            \* the wall clock (datetime.now()), in clock units
    cret,           \* DataCache: the last call, the branch it took and what it returned
    last_save,      \* history: the arguments and the time of the last save_data call
    proxies,        \* ProxyManager.proxies
    current_proxy,  \* ProxyManager.current_proxy
    proxy_enabled,  \* ProxyManager.proxy_enabled
    session,        \* SessionManager.session of each session manager: the proxy it is bound to
    pret,           \* ProxyManager / SessionManager: the last call and what it returned
    scan,           \* scan_earnings_stocks: the invocation in progress, its locals and its result
    reco,           \* analyze_stock / compute_recommendation: the analysis of one ticker in progress
    fetch,          \* fetch_earnings_data: the calendar fetch in progress
    calc,           \* OptionsAnalyzer: the last call of a helper of the computation, its
                    \* arguments and what it returned
    build,          \* build_valid_proxy_pool: the call in progress and its locals
    rot             \* rotate_session: the call each worker thread has in progress

cacheVars == <<store, now, cret, last_save>>
proxyVars == <<proxies, current_proxy, proxy_enabled, session, pret>>
scanVars == <<scan>>
fetchVars == <<reco, fetch>>
calcVars == <<calc>>
poolVars == <<build, rot>>
vars == <<store, now, cret, last_save, proxies, current_proxy, proxy_enabled, session, pret, scan,
          reco, fetch, calc, build, rot>>

---------------------------------------------------------------------------
(* Bounds of the model *)

\* the clock stops at the end of this day
MaxDay == 8

\* the longest list of expiries of a ticker
MaxExpiries == 3

---------------------------------------------------------------------------
(* Python values: None, str, int/float and bool.  `==` treats bool as the  *)
(* integers 0 and 1, which is what `x in [None, 'N/A', 0]` relies on.      *)

PyNone == [t |-> "none", n |-> 0, s |-> ""]
PyStr(x) == [t |-> "str", n |-> 0, s |-> x]
PyNum(x) == [t |-> "num", n |-> x, s |-> ""]
PyBool(b) == [t |-> "bool", n |-> IF b THEN 1 ELSE 0, s |-> ""]
\* float('nan'): it compares unequal to every number and passes no threshold
PyNaN == [t |-> "nan", n |-> 0, s |-> ""]

IsNumeric(v) == v.t \in {"num", "bool"}

\* Python a == b
PyEq(a, b) ==
    IF IsNumeric(a) /\ IsNumeric(b) THEN a.n = b.n
    ELSE a.t = b.t /\ a.n = b.n /\ a.s = b.s

\* Python v in lst
PyIn(v, lst) == \E i \in 1..Len(lst) : PyEq(v, lst[i])

\* Optional[List]: None or a list
NoneList == [some |-> FALSE, v |-> <<>>]
SomeList(l) == [some |-> TRUE, v |-> l]

---------------------------------------------------------------------------
(* Strings that are compared: ticker symbols, in lexicographic order *)

Symbols == <<"AAA", "BBB", "CCC", "DDD", "EEE", "FFF", "GGG", "HHH", "III", "JJJ", "KKK">>
SymbolSet == {Symbols[i] : i \in 1..Len(Symbols)}
Rank(t) == CHOOSE i \in 1..Len(Symbols) : Symbols[i] = t
StrLeq(a, b) == Rank(a) <= Rank(b)

\* all orderings of a list
Perms(s) ==
    LET n == Len(s)
        Bij == {f \in [1..n -> 1..n] : \A i, j \in 1..n : f[i] = f[j] => i = j}
    IN {[i \in 1..n |-> s[f[i]]] : f \in Bij}

RECURSIVE Insert(_, _)
Insert(x, s) ==
    IF s = <<>> THEN <<x>>
    ELSE IF StrLeq(x, Head(s)) THEN <<x>> \o s
    ELSE <<Head(s)>> \o Insert(x, Tail(s))

\* sorted(tks)
RECURSIVE sorted(_)
sorted(s) == IF s = <<>> THEN <<>> ELSE Insert(Head(s), sorted(Tail(s)))

\* sep.join(lst), as the list of its pieces
RECURSIVE join(_, _)
join(sep, lst) ==
    IF lst = <<>> THEN <<>>
    ELSE IF Len(lst) = 1 THEN lst
    ELSE <<Head(lst), sep>> \o join(sep, Tail(lst))

\* hashlib.md5(...).hexdigest(): a function of the text alone, taken to be
\* free of collisions on the texts of the model
md5(text) == <<"md5">> \o text

---------------------------------------------------------------------------
(* The clock.  datetime carries the time of day, timedelta.days is the     *)
(* whole days of a difference: a datetime is a day and a half of the day.  *)

cache_expiry_days == 7

Epoch == [d |-> 0, h |-> 0]
\* the days on which the clock is read: the day of the first save, and the days
\* around the expiry of what was saved then
ClockDays == {0} \cup ((cache_expiry_days - 1)..MaxDay)
Instants == {[d |-> dd, h |-> hh] : dd \in ClockDays, hh \in {0, 1}}
Later(a, b) == a.d > b.d \/ (a.d = b.d /\ a.h > b.h)

\* (a - b).days
timedelta_days(a, b) == (a.d - b.d) - (IF a.h < b.h THEN 1 ELSE 0)

---------------------------------------------------------------------------
(* The result records of analyze_stock *)

Result(tk, et, rec, avb, em, ivrv, slope, ts) ==
    [ticker |-> PyStr(tk), earnings_time |-> PyStr(et), recommendation |-> PyStr(rec),
     avg_volume |-> PyBool(avb), expected_move |-> PyStr(em), iv30_rv30 |-> PyNum(ivrv),
     term_slope |-> PyNum(slope), term_structure |-> PyNum(ts), current_iv |-> PyNone]

\* the record analyze_stock builds when compute_recommendation returned an error
ErrorResult(tk, et) == Result(tk, et, "Avoid", FALSE, "N/A", 0, 0, 0)

\* Numbers are scaled: iv30_rv30 and term_structure by 100, term_slope by 100000
OkA2 == Result("AAA", "Unknown", "Avoid", TRUE, "7.5%", 90, 100, 55)
PartA == Result("AAA", "Pre Market", "Consider", FALSE, "N/A", 150, -500, 40)
ErrA == ErrorResult("AAA", "Pre Market")
OkB == Result("BBB", "Post Market", "Recommended", TRUE, "3.1%", 130, -450, 35)
ErrB == ErrorResult("BBB", "Post Market")

\* the records passed to update_missing_data, and the lists passed to save_data
RecordSamples == {OkA2, PartA, OkB}
DataSamples == {<<>>, <<PartA, OkB>>, <<ErrB, ErrA>>}
\* the lists saved while the clock runs
FewDataSamples == {<<>>, <<PartA, OkB>>}

Dates == {"2025-01-10", "2025-01-11"}
\* the scans that are saved are those of one date; lookups are made for both
SaveDates == {"2025-01-10"}
TickerLists == {<<"AAA", "BBB">>, <<"BBB", "AAA">>, <<"CCC", "AAA", "BBB">>, <<"BBB", "CCC", "AAA">>}
\* the lists of the scans that are saved
SaveLists == {<<"AAA", "BBB">>, <<"BBB", "AAA">>, <<"CCC", "AAA", "BBB">>}

---------------------------------------------------------------------------
(* DataCache.  Each method is an operator from the files and the clock to   *)
(* the files it leaves and what it returns; the actions below apply them.  *)

_get_cache_key_unsorted(date, tks) == md5(<<date, "_">> \o join("_", tks))
_get_cache_key(date, tks) == md5(<<date, "_">> \o join("_", sorted(tks)))

\* the missing-field names of one record when an absent current_iv is not looked for
missing_fields_without_iv(d) ==
    (IF PyEq(d["expected_move"], PyStr("N/A")) THEN <<"expected_move">> ELSE <<>>)
    \o (IF PyIn(d["term_structure"], <<PyNum(0), PyStr("N/A")>>)
        THEN <<"term_structure">> ELSE <<>>)

\* the missing-field names of one record, in the order the code appends them
missing_fields(d) ==
    (IF PyEq(d["expected_move"], PyStr("N/A")) THEN <<"expected_move">> ELSE <<>>)
    \o (IF d["current_iv"].t = "none" THEN <<"current_iv">> ELSE <<>>)
    \o (IF PyIn(d["term_structure"], <<PyNum(0), PyStr("N/A")>>)
        THEN <<"term_structure">> ELSE <<>>)

RECURSIVE _identify_missing_data(_)
_identify_missing_data(data) ==
    IF data = <<>> THEN <<>>
    ELSE LET d == Head(data)
             mf == missing_fields(d)
         IN (IF mf # <<>>
             THEN <<[ticker |-> d["ticker"], missing_fields |-> mf,
                     earnings_time |-> d["earnings_time"]]>>
             ELSE <<>>)
            \o _identify_missing_data(Tail(data))

\* a pickled cache entry, and a file pickle.load cannot read
Payload_day_only(ts, date, tks, data, missing) ==
    [ok |-> TRUE, timestamp |-> [ts EXCEPT !.h = 0], date |-> date, tickers |-> tks,
     data |-> data, missing_data |-> missing]
Payload(ts, date, tks, data, missing) ==
    [ok |-> TRUE, timestamp |-> ts, date |-> date, tickers |-> tks, data |-> data,
     missing_data |-> missing]
Unreadable ==
    [ok |-> FALSE, timestamp |-> Epoch, date |-> "", tickers |-> <<>>, data |-> <<>>,
     missing_data |-> <<>>]

WriteFile(st, k, payload) == [x \in DOMAIN st \cup {k} |-> IF x = k THEN payload ELSE st[x]]
RemoveFiles(st, ks) == [x \in DOMAIN st \ ks |-> st[x]]

\* what a method leaves and returns
Out(st, branch, data, missing) ==
    [store |-> st, branch |-> branch, data |-> data, missing |-> missing]

\* a save that writes no file
save_nothing(st, nw, date, tks, data) == st

save_data(st, nw, date, tks, data) ==
    WriteFile(st, _get_cache_key(date, tks),
              Payload(nw, date, tks, data, _identify_missing_data(data)))

is_expired_gt(age_days) == age_days > cache_expiry_days
is_expired(age_days) == age_days >= cache_expiry_days

get_data(st, nw, date, tks) ==
    LET ck == _get_cache_key(date, tks)
    IN IF ck \notin DOMAIN st THEN Out(st, "nofile", NoneList, <<>>)
       ELSE IF ~st[ck].ok THEN Out(st, "error", NoneList, <<>>)
       ELSE IF is_expired(timedelta_days(nw, st[ck].timestamp))
            THEN Out(RemoveFiles(st, {ck}), "expired", NoneList, <<>>)
       ELSE Out(st, "hit", SomeList(st[ck].data), st[ck].missing_data)

is_fillable(v) == PyIn(v, <<PyNone, PyStr("N/A"), PyNum(0)>>)

\* a merge that takes every field of the new record
merge_entry_overwriting(entry, new_data) ==
    IF PyEq(entry["ticker"], new_data["ticker"])
    THEN [k \in DOMAIN entry |-> IF k \in DOMAIN new_data THEN new_data[k] ELSE entry[k]]
    ELSE entry

\* a merge that skips the test of the ticker
merge_entry_any_ticker(entry, new_data) ==
    [k \in DOMAIN entry |->
        IF k \in DOMAIN new_data /\ is_fillable(entry[k]) THEN new_data[k] ELSE entry[k]]

\* lines 835-839: the fields of one stored record after the update
merge_entry(entry, new_data) ==
    IF PyEq(entry["ticker"], new_data["ticker"])
    THEN [k \in DOMAIN entry |->
            IF k \in DOMAIN new_data /\ is_fillable(entry[k]) THEN new_data[k] ELSE entry[k]]
    ELSE entry

update_missing_data(st, date, tks, new_data) ==
    LET ck == _get_cache_key(date, tks)
    IN IF ck \notin DOMAIN st \/ ~st[ck].ok THEN Out(st, "error", NoneList, <<>>)
       ELSE LET c == st[ck]
                data2 == [i \in 1..Len(c.data) |-> merge_entry(c.data[i], new_data)]
            IN Out(WriteFile(st, ck, [c EXCEPT !.data = data2,
                                        !.missing_data = _identify_missing_data(data2)]),
                   "updated", NoneList, <<>>)

\* a sweep that leaves the files it cannot read
clear_expired_readable_only(st, nw) ==
    RemoveFiles(st, {k \in DOMAIN st :
                       st[k].ok /\ is_expired(timedelta_days(nw, st[k].timestamp))})

\* lines 847-858
clear_expired(st, nw) ==
    RemoveFiles(st, {k \in DOMAIN st :
                       \/ ~st[k].ok
                       \/ is_expired(timedelta_days(nw, st[k].timestamp))})

\* a call of the cache: its arguments, the file it addressed, the branch it took
\* and what it returned
Ret(op, date, tks, branch, data, missing) ==
    [op |-> op, date |-> date, tickers |-> tks, key |-> _get_cache_key(date, tks),
     branch |-> branch, data |-> data, missing |-> missing]
NoCall(op) ==
    [op |-> op, date |-> "", tickers |-> <<>>, key |-> <<>>, branch |-> "",
     data |-> NoneList, missing |-> <<>>]
NoSave == [valid |-> FALSE, date |-> "", tickers |-> <<>>, data |-> <<>>, at |-> Epoch]

SaveData(date, tks, data) ==
    /\ store' = save_data(store, now, date, tks, data)
    /\ cret' = Ret("save", date, tks, "saved", NoneList, <<>>)
    /\ last_save' = [valid |-> TRUE, date |-> date, tickers |-> tks, data |-> data, at |-> now]
    /\ UNCHANGED <<now, proxyVars, scanVars, calcVars, poolVars, fetchVars>>

GetData(date, tks) ==
    LET o == get_data(store, now, date, tks)
    IN /\ store' = o.store
       /\ cret' = Ret("get", date, tks, o.branch, o.data, o.missing)
       /\ UNCHANGED <<now, last_save, proxyVars, scanVars, calcVars, poolVars, fetchVars>>

UpdateMissingData(date, tks, new_data) ==
    LET o == update_missing_data(store, date, tks, new_data)
    IN /\ store' = o.store
       /\ cret' = Ret("update", date, tks, o.branch, NoneList, <<>>)
       /\ last_save' = IF o.branch = "updated" THEN NoSave ELSE last_save
       /\ UNCHANGED <<now, proxyVars, scanVars, calcVars, poolVars, fetchVars>>

\* the branch records which of the two os.remove calls were reached
ClearExpired ==
    /\ store' = clear_expired(store, now)
    /\ cret' = [NoCall("clear") EXCEPT !.branch =
                  IF \E k \in DOMAIN store \ DOMAIN store' : store[k].ok
                  THEN IF \E k \in DOMAIN store \ DOMAIN store' : ~store[k].ok
                       THEN "expired and unreadable" ELSE "expired"
                  ELSE IF DOMAIN store' # DOMAIN store THEN "unreadable" ELSE ""]
    /\ UNCHANGED <<now, last_save, proxyVars, scanVars, calcVars, poolVars, fetchVars>>

\* the environment: time passes; a cache file is damaged on disk
Tick ==
    /\ \E t \in Instants : /\ Later(t, now)
                           /\ \A u \in Instants : Later(u, now) => ~Later(t, u)
                           /\ now' = t
    /\ UNCHANGED <<store, cret, last_save, proxyVars, scanVars, calcVars, poolVars, fetchVars>>

DamageFile ==
    /\ \E k \in DOMAIN store : /\ store[k].ok
                               /\ store' = [store EXCEPT ![k] = Unreadable]
    /\ last_save' = NoSave
    /\ UNCHANGED <<now, cret, proxyVars, scanVars, calcVars, poolVars, fetchVars>>

CacheInit ==
    /\ store = <<>>
    /\ now = Epoch
    /\ cret = NoCall("init")
    /\ last_save = NoSave

\* the cache at one instant: every call, and files damaged on disk
CacheNext ==
    \/ \E d \in SaveDates, tks \in SaveLists, data \in DataSamples : SaveData(d, tks, data)
    \/ \E d \in Dates, tks \in TickerLists : GetData(d, tks)
    \/ \E d \in SaveDates, tks \in TickerLists, r \in RecordSamples : UpdateMissingData(d, tks, r)
    \/ ClearExpired
    \/ DamageFile

\* the cache as time passes
CacheTTLNext ==
    \/ \E d \in SaveDates, tks \in SaveLists, data \in FewDataSamples : SaveData(d, tks, data)
    \/ \E d \in Dates, tks \in TickerLists : GetData(d, tks)
    \/ ClearExpired
    \/ Tick
    \/ DamageFile

\* the cache directory swept as time passes
PurgeNext ==
    \/ \E d \in SaveDates, tks \in SaveLists, data \in FewDataSamples : SaveData(d, tks, data)
    \/ ClearExpired
    \/ Tick
    \/ DamageFile

---------------------------------------------------------------------------
(* ProxyManager and SessionManager.  random.choice makes a method a set of  *)
(* outcomes.  A proxy is the dict {'http': url, 'https': url} of one        *)
(* address, so it is modelled by the address.                              *)

NoProxy == "None"
Addrs == {"p1", "p2", "p3"}
\* the session managers that share the proxy manager
Managers == {"analyzer", "calendar"}

Range(f) == {f[i] : i \in DOMAIN f}

\* list({p['http']: p for p in candidates}.values())
RECURSIVE dedupe(_)
dedupe(cands) ==
    IF cands = <<>> THEN <<>>
    ELSE LET init == dedupe(SubSeq(cands, 1, Len(cands) - 1))
             x == cands[Len(cands)]
         IN IF x \in Range(init) THEN init ELSE Append(init, x)

\* the as_completed loop: append what validated, stop at max_proxies
RECURSIVE take_valid(_, _, _, _)
take_valid(order, ok, max_proxies, valid) ==
    IF order = <<>> THEN valid
    ELSE IF Head(order) \in ok
         THEN IF Len(valid) + 1 >= max_proxies THEN Append(valid, Head(order))
              ELSE take_valid(Tail(order), ok, max_proxies, Append(valid, Head(order)))
    ELSE take_valid(Tail(order), ok, max_proxies, valid)

\* the pools a build can install: candidates validate in any order of completion
build_valid_proxy_pool(cands, ok, max_proxies) ==
    {take_valid(order, ok, max_proxies, <<>>) : order \in Perms(dedupe(cands))}

PickOut(cur, ret) == [current |-> cur, ret |-> ret]

get_proxy(ps, en, cur) ==
    IF ~en \/ ps = <<>> THEN {PickOut(cur, NoProxy)}
    ELSE {PickOut(ps[i], ps[i]) : i \in 1..Len(ps)}

rotate_proxy_any(ps, en, cur) ==
    IF ~en \/ Len(ps) <= 1 THEN {PickOut(cur, NoProxy)}
    ELSE {PickOut(ps[i], ps[i]) : i \in 1..Len(ps)}
rotate_proxy(ps, en, cur) ==
    IF ~en \/ Len(ps) <= 1 THEN {PickOut(cur, NoProxy)}
    ELSE LET available == {x \in Range(ps) : x # cur}
         IN IF available # {} THEN {PickOut(x, x) : x \in available}
            ELSE {PickOut(cur, NoProxy)}

\* the proxy a new session is bound to, and the current proxy it leaves
_create_session(ps, en, cur) ==
    IF en THEN {[current |-> o.current, session |-> o.ret] : o \in get_proxy(ps, en, cur)}
    ELSE {[current |-> cur, session |-> NoProxy]}

\* rotated: what rotate_proxy returned inside the call
rotate_session(ps, en, cur, sess) ==
    IF ~en THEN {[current |-> cur, session |-> sess, rotated |-> NoProxy]}
    ELSE UNION {IF o.ret # NoProxy
                THEN {[current |-> c.current, session |-> c.session, rotated |-> o.ret] :
                         c \in _create_session(ps, en, o.current)}
                ELSE {[current |-> o.current, session |-> sess, rotated |-> NoProxy]} :
                o \in rotate_proxy(ps, en, cur)}

\* a call: the method, the manager, what it returned, the current proxy before it
PRet(op, mgr, ret, prev, rotated) ==
    [op |-> op, mgr |-> mgr, ret |-> ret, prev |-> prev, rotated |-> rotated]

\* the candidate lists the sources return, and the max_proxies of a build
CandidateSamples == {<<"p2", "p1", "p2">>, <<"p1", "p2", "p3", "p1">>}
MaxProxiesSamples == {2, 50}

BuildValidProxyPool ==
    /\ \E cands \in CandidateSamples, ok \in SUBSET Addrs, max_proxies \in MaxProxiesSamples :
          \E valid \in build_valid_proxy_pool(cands, ok, max_proxies) : proxies' = valid
    /\ pret' = PRet("build", "", NoProxy, current_proxy, NoProxy)
    /\ UNCHANGED <<current_proxy, proxy_enabled, session, cacheVars, scanVars, calcVars, poolVars, fetchVars>>

GetProxy ==
    /\ \E o \in get_proxy(proxies, proxy_enabled, current_proxy) :
          /\ current_proxy' = o.current
          /\ pret' = PRet("get_proxy", "", o.ret, current_proxy, NoProxy)
    /\ UNCHANGED <<proxies, proxy_enabled, session, cacheVars, scanVars, calcVars, poolVars, fetchVars>>

RotateProxy ==
    /\ \E o \in rotate_proxy(proxies, proxy_enabled, current_proxy) :
          /\ current_proxy' = o.current
          /\ pret' = PRet("rotate_proxy", "", o.ret, current_proxy, NoProxy)
    /\ UNCHANGED <<proxies, proxy_enabled, session, cacheVars, scanVars, calcVars, poolVars, fetchVars>>

RotateSession(m) ==
    /\ \E o \in rotate_session(proxies, proxy_enabled, current_proxy, session[m]) :
          /\ current_proxy' = o.current
          /\ session' = [session EXCEPT ![m] = o.session]
          /\ pret' = PRet("rotate_session", m, NoProxy, current_proxy, o.rotated)
    /\ UNCHANGED <<proxies, proxy_enabled, cacheVars, scanVars, calcVars, poolVars, fetchVars>>

\* on_toggle_proxy
ToggleProxy ==
    /\ proxy_enabled' = ~proxy_enabled
    /\ pret' = PRet("toggle", "", NoProxy, current_proxy, NoProxy)
    /\ UNCHANGED <<proxies, current_proxy, session, cacheVars, scanVars, calcVars, poolVars, fetchVars>>

\* on_update_proxies: the sources returned FetchedSample, and the build ran with
\* max_proxies=50
FetchedSample == <<"p2", "p1", "p2">>
OnUpdateProxies ==
    /\ \E ok \in SUBSET Range(FetchedSample) :
          \E valid \in build_valid_proxy_pool(FetchedSample, ok, 50) : proxies' = valid
    /\ pret' = PRet("build", "", NoProxy, current_proxy, NoProxy)
    /\ UNCHANGED <<current_proxy, proxy_enabled, session, cacheVars, scanVars, calcVars, poolVars, fetchVars>>

\* no build in progress; after a build, the arguments of the last one
BuildIdle ==
    [pc |-> "idle", cands |-> <<>>, ok |-> {}, max_proxies |-> 1, left |-> {}, valid |-> <<>>]

\* the worker threads of a batch
Workers == {"w1", "w2"}

\* a worker's call: where it is, and the proxy of the session it has created
RotIdle == [w \in Workers |-> [pc |-> "idle", s |-> NoProxy]]

\* EarningsTkApp.__init__: proxies enabled, no pool yet, so both sessions are direct
ProxyInit ==
    /\ proxies = <<>>
    /\ current_proxy = NoProxy
    /\ proxy_enabled = TRUE
    /\ session = [m \in Managers |-> NoProxy]
    /\ pret = PRet("init", "", NoProxy, NoProxy, NoProxy)
    /\ build = BuildIdle
    /\ rot = RotIdle

ProxyNext ==
    \/ BuildValidProxyPool
    \/ GetProxy
    \/ RotateProxy
    \/ \E m \in Managers : RotateSession(m)
    \/ ToggleProxy

---------------------------------------------------------------------------
(* build_valid_proxy_pool step by step.  The call deduplicates the          *)
(* candidates, validates them on a thread pool, handles each future as it  *)
(* completes and assigns self.proxies once, after the loop.  Other threads *)
(* read self.proxies while the loop runs.                                  *)

\* a build that appends to self.proxies while it validates
proxies_built_in_place(ps, valid) == valid

\* lines 337-352: the loop appends to the local list valid, so self.proxies is
\* what it was before the call
proxies_during_build(ps, valid) == ps

\* lines 312-338: the sources are read, the candidates deduplicated, valid = []
\* and every validation submitted
BuildStart ==
    /\ build.pc = "idle"
    /\ \E cands \in CandidateSamples, ok \in SUBSET Addrs, max_proxies \in MaxProxiesSamples :
          build' = [pc |-> "validating", cands |-> dedupe(cands), ok |-> ok,
                    max_proxies |-> max_proxies, left |-> Range(dedupe(cands)),
                    valid |-> <<>>]
    /\ pret' = PRet("build_start", "", NoProxy, current_proxy, NoProxy)
    /\ UNCHANGED <<proxies, current_proxy, proxy_enabled, session, rot,
                   cacheVars, scanVars, calcVars, fetchVars>>

\* lines 340-352: as_completed yields the future of p; a validated p is appended,
\* and the loop breaks once valid holds max_proxies of them
BuildCompleted ==
    /\ build.pc = "validating"
    /\ \E p \in build.left :
          LET valid == IF p \in build.ok THEN Append(build.valid, p) ELSE build.valid
              stop == p \in build.ok /\ Len(valid) >= build.max_proxies
          IN /\ build' = [build EXCEPT !.valid = valid,
                                       !.left = IF stop THEN {} ELSE build.left \ {p}]
             /\ proxies' = proxies_during_build(proxies, valid)
    /\ pret' = PRet("build_step", "", NoProxy, current_proxy, NoProxy)
    /\ UNCHANGED <<current_proxy, proxy_enabled, session, rot,
                   cacheVars, scanVars, calcVars, fetchVars>>

\* line 353: self.proxies = valid
BuildInstall ==
    /\ build.pc = "validating"
    /\ build.left = {}
    /\ proxies' = build.valid
    /\ build' = [build EXCEPT !.pc = "idle"]
    /\ pret' = PRet("build", "", NoProxy, current_proxy, NoProxy)
    /\ UNCHANGED <<current_proxy, proxy_enabled, session, rot,
                   cacheVars, scanVars, calcVars, fetchVars>>

\* a build in a background thread (on_update_proxies), with the requests of the
\* other threads reading the pool meanwhile
BuildNext ==
    \/ BuildStart
    \/ BuildCompleted
    \/ BuildInstall
    \/ GetProxy
    \/ RotateProxy

---------------------------------------------------------------------------
(* rotate_session called by the worker threads of a batch.  The workers    *)
(* share the analyzer's SessionManager and its ProxyManager and take no    *)
(* lock; a call is the call of rotate_proxy, the get_proxy inside          *)
(* _create_session, and the assignment of self.session.                    *)

\* lines 388-389: the test of proxy_enabled and the call of rotate_proxy
RotRotate(w) ==
    /\ rot[w].pc = "idle"
    /\ IF ~proxy_enabled
       THEN /\ rot' = [rot EXCEPT ![w].pc = "done"]
            /\ UNCHANGED current_proxy
       ELSE \E o \in rotate_proxy(proxies, proxy_enabled, current_proxy) :
               /\ current_proxy' = o.current
               /\ rot' = [rot EXCEPT ![w].pc = IF o.ret # NoProxy THEN "rotated" ELSE "done"]
    /\ pret' = PRet("rotate_proxy", w, NoProxy, current_proxy, NoProxy)
    /\ UNCHANGED <<proxies, proxy_enabled, session, build,
                   cacheVars, scanVars, calcVars, fetchVars>>

\* line 391, right-hand side: _create_session builds a session for the proxy its
\* own get_proxy returns
RotCreate(w) ==
    /\ rot[w].pc = "rotated"
    /\ \E c \in _create_session(proxies, proxy_enabled, current_proxy) :
          /\ current_proxy' = c.current
          /\ rot' = [rot EXCEPT ![w] = [pc |-> "created", s |-> c.session]]
    /\ pret' = PRet("_create_session", w, NoProxy, current_proxy, NoProxy)
    /\ UNCHANGED <<proxies, proxy_enabled, session, build,
                   cacheVars, scanVars, calcVars, fetchVars>>

\* line 391, the assignment of self.session
RotAssign(w) ==
    /\ rot[w].pc = "created"
    /\ session' = [session EXCEPT !["analyzer"] = rot[w].s]
    /\ rot' = [rot EXCEPT ![w].pc = "done"]
    /\ pret' = PRet("rotate_session", w, NoProxy, current_proxy, rot[w].s)
    /\ UNCHANGED <<proxies, current_proxy, proxy_enabled, build,
                   cacheVars, scanVars, calcVars, fetchVars>>

\* the workers of a batch start after a build installed a pool of every candidate
RotateInit ==
    /\ proxies \in build_valid_proxy_pool(<<"p1", "p2", "p3", "p1">>, Addrs, 50)
    /\ current_proxy = NoProxy
    /\ proxy_enabled = TRUE
    /\ session = [m \in Managers |-> NoProxy]
    /\ pret = PRet("build", "", NoProxy, NoProxy, NoProxy)
    /\ build = BuildIdle
    /\ rot = RotIdle

RotateNext ==
    \/ \E w \in Workers : RotRotate(w)
    \/ \E w \in Workers : RotCreate(w)
    \/ \E w \in Workers : RotAssign(w)

---------------------------------------------------------------------------
(* EnhancedEarningsScanner.scan_earnings_stocks.  One invocation runs at a  *)
(* time; its steps are the start (calendar, OTC filter, cache check), the  *)
(* start of a batch, the start of one analysis by a worker thread, the     *)
(* completion of one future of the batch, and the end (ranking, save or    *)
(* re-read, return).  The main thread handles a future at the moment its   *)
(* analysis ends: what it does then (count, progress, append or merge)     *)
(* neither enables nor disables a step of a worker thread.                 *)

batch_size == 10

\* the timing tag the calendar gives a ticker (get_earnings_time)
get_earnings_time(tk) ==
    IF tk = "AAA" THEN "Pre Market" ELSE IF tk = "BBB" THEN "Post Market" ELSE "Unknown"

\* The thresholds of the score, in the scaled units of the records: 1.25 for
\* iv30_rv30 (scaled by 100) and -0.00406 for term_slope (scaled by 100000)
iv_threshold == 125
slope_threshold == 0 - 406

isnan(v) == v.t = "nan"

\* a check that lets NaN pass
ivcheck_nan_passes(iv) == iv.t # "none" /\ (isnan(iv) \/ iv.n >= iv_threshold)

\* lines 1038-1039: a value that is None or NaN fails its threshold
ivcheck(iv) == IF iv.t # "none" /\ ~isnan(iv) THEN iv.n >= iv_threshold ELSE FALSE
slopecheck(slope) ==
    IF slope.t # "none" /\ ~isnan(slope) THEN slope.n <= slope_threshold ELSE FALSE

\* lines 1040-1045: the tier of a ticker
recommendation(avb, iv, slope) ==
    IF avb /\ ivcheck(iv) /\ slopecheck(slope) THEN "Recommended"
    ELSE IF slopecheck(slope) /\ ((avb /\ ~ivcheck(iv)) \/ (ivcheck(iv) /\ ~avb)) THEN "Consider"
    ELSE "Avoid"

\* lines 1046-1063: the record of a ticker whose recommendation was computed
Scored(tk, avb, em, ivrv, slope, ts) ==
    Result(tk, get_earnings_time(tk), recommendation(avb, PyNum(ivrv), PyNum(slope)),
           avb, em, ivrv, slope, ts)

\* the tickers whose analysis can yield a record, and those among them whose
\* recommendation can fail
Listed == {"AAA", "BBB", "CCC", "KKK"}
Optionable == {"AAA", "BBB"}

\* what analyze_stock can return for a ticker: None (<<>>) when the ticker is
\* skipped or the analysis raised, the error record, or a scored record
analyze_stock(tk) ==
    IF tk \in Optionable
    THEN {<<>>,
          <<ErrorResult(tk, get_earnings_time(tk))>>,
          <<Scored(tk, TRUE, "5.0%", 150, -500, 40)>>,
          <<Scored(tk, FALSE, "N/A", 150, -500, 40)>>}
    ELSE IF tk \in Listed
    THEN {<<>>, <<Scored(tk, TRUE, "5.0%", 150, -500, 40)>>}
    ELSE {<<>>}

\* the order of the strings the ranking compares
TimingOrder == <<"During Market", "Post Market", "Pre Market", "Unknown">>
TimingRank(s) == CHOOSE i \in 1..Len(TimingOrder) : TimingOrder[i] = s

\* the sort key (recommendation != 'Recommended', earnings_time == 'Unknown',
\* earnings_time, ticker), with False < True as 0 < 1
rank_key(x) ==
    <<IF x["recommendation"].s # "Recommended" THEN 1 ELSE 0,
      IF x["earnings_time"].s = "Unknown" THEN 1 ELSE 0,
      TimingRank(x["earnings_time"].s),
      Rank(x["ticker"].s)>>

RECURSIVE TupleLeq(_, _)
TupleLeq(a, b) ==
    IF a = <<>> THEN TRUE
    ELSE IF Head(a) # Head(b) THEN Head(a) < Head(b)
    ELSE TupleLeq(Tail(a), Tail(b))

RECURSIVE InsertRanked(_, _)
InsertRanked(x, s) ==
    IF s = <<>> THEN <<x>>
    ELSE IF TupleLeq(rank_key(x), rank_key(Head(s))) THEN <<x>> \o s
    ELSE <<Head(s)>> \o InsertRanked(x, Tail(s))

\* a stable sort by the first component of the key alone
RECURSIVE sort_by_tier(_)
sort_by_tier(s) ==
    IF s = <<>> THEN <<>>
    ELSE LET rest == sort_by_tier(Tail(s))
             x == Head(s)
             n == Cardinality({i \in 1..Len(rest) : rank_key(rest[i])[1] < rank_key(x)[1]})
         IN SubSeq(rest, 1, n) \o <<x>> \o SubSeq(rest, n + 1, Len(rest))

\* the list left in the order of completion
completion_order(s) == s

\* recommended.sort(key=...): a stable sort
RECURSIVE sort_ranked(_)
sort_ranked(s) == IF s = <<>> THEN <<>> ELSE InsertRanked(Head(s), sort_ranked(Tail(s)))

\* [ticker for ticker in e_stocks if ticker.upper() not in otc_tickers]
RECURSIVE filter_otc(_, _)
filter_otc(tks, otc) ==
    IF tks = <<>> THEN <<>>
    ELSE (IF Head(tks) \in otc THEN <<>> ELSE <<Head(tks)>>) \o filter_otc(Tail(tks), otc)

\* a progress value n/d
Frac(n, d) == [n |-> n, d |-> d]

\* the value handed to progress_callback after `done` of `total` futures, when
\* every phase is reported on the scale of the primary phase
progress_value_unshifted(mode, done, total) == Frac(80 * done, total)

\* lines 948 and 974: val = 80 + (done/total * 20), pc = (done/total_stocks * 80)
progress_value(mode, done, total) ==
    IF mode = "backfill" THEN Frac(80 * total + 20 * done, total) ELSE Frac(80 * done, total)

\* s[a:b] of Python for 0 <= a <= b
py_slice(s, a, b) ==
    LET hi == IF b < Len(s) THEN b ELSE Len(s)
    IN IF a >= hi THEN <<>> ELSE SubSeq(s, a + 1, hi)

\* range(0, total, step) has this many members
range_len(total, step) == (total + step - 1) \div step

\* slices that start one ticker before the end of the slice before them
batches_overlapping(work) ==
    [k \in 1..range_len(Len(work), batch_size) |->
        py_slice(work, (k - 1) * (batch_size - 1), (k - 1) * (batch_size - 1) + batch_size)]

\* lines 939 and 965: [work[i:i+self.batch_size] for i in range(0, total, self.batch_size)]
batches(work) ==
    [k \in 1..range_len(Len(work), batch_size) |->
        py_slice(work, (k - 1) * batch_size, (k - 1) * batch_size + batch_size)]

\* lines 942 and 968: ThreadPoolExecutor(max_workers=min(5, len(b)))
pool_cap == 5
as_many_workers_as_futures(n) == n
max_workers(n) == IF pool_cap < n THEN pool_cap ELSE n

\* the positions of the working list that batch number bi (from 0) holds
BatchPositions(bi, total) ==
    {i \in 1..total : bi * batch_size < i /\ i <= (bi + 1) * batch_size}

truthy(optlist) == optlist.some /\ optlist.v # <<>>

\* line 936: [m['ticker'] for m in missing_data]
missing_tickers_but_first(missing) == [i \in 1..Len(missing) - 1 |-> missing[i + 1].ticker.s]
missing_tickers(missing) == [i \in 1..Len(missing) |-> missing[i].ticker.s]

\* lines 944-955 and 970-981: the futures of the batch still to be waited for,
\* after the future with result r was taken out of `left`: a failure is logged
\* or dropped inside the loop
abandon_on_failure(left, r) == IF r = <<>> THEN {} ELSE left
after_result(left, r) == left

\* the loop over the batches goes on as soon as one future was handled
first_completed(left) == TRUE
\* lines 944 and 970, and the end of the `with` block: as_completed is exhausted,
\* and the executor shut down, when no future of the batch is left
all_completed(left) == left = {}

\* lines 1046-1063 after lines 609-656: the analysis returned the record of a
\* computed recommendation whose expected move and term structure are there
complete_data(r) ==
    /\ r # <<>>
    /\ ~PyEq(r[1]["expected_move"], PyStr("N/A"))
    /\ ~PyIn(r[1]["term_structure"], <<PyNum(0), PyStr("N/A")>>)

\* refilled: every result a backfill has handled so far carried complete data
ScanIdle ==
    [pc |-> "idle", ds |-> "", e_stocks |-> <<>>, mode |-> "", cached |-> NoneList,
     missing |-> <<>>, work |-> <<>>, bi |-> 0, pending |-> {}, done |-> 0,
     recommended |-> <<>>, progress |-> <<>>, hist_fetches |-> 0, analysed |-> 0,
     results |-> <<>>, appended |-> <<>>, ret |-> NoneList,
     batches |-> <<>>, submitted |-> <<>>, max_workers |-> 0, started |-> 0,
     completed |-> {}, refilled |-> TRUE]

\* the futures of the executor whose analysis runs: the worker threads take the
\* submitted futures in the order of submission
running(sc) == {p \in sc.pending : p <= sc.started}

\* lines 915-965: the calendar returned cal, the OTC file holds otc
ScanStart(date, cal, otc) ==
    /\ scan.pc \in {"idle", "returned"}
    /\ LET e_stocks == filter_otc(cal, otc)
           o == get_data(store, now, date, e_stocks)
           begun == [ScanIdle EXCEPT !.ds = date, !.e_stocks = e_stocks]
       IN IF e_stocks = <<>>
          THEN /\ scan' = [begun EXCEPT !.pc = "returned", !.ret = SomeList(<<>>)]
               /\ UNCHANGED store
          ELSE /\ store' = o.store
               /\ scan' =
                    IF truthy(o.data)
                    THEN IF o.missing # <<>>
                         THEN [begun EXCEPT !.pc = "batch", !.mode = "backfill",
                                 !.cached = o.data, !.missing = o.missing,
                                 !.work = missing_tickers(o.missing),
                                 !.batches = batches(missing_tickers(o.missing))]
                         ELSE [begun EXCEPT !.pc = "returned", !.mode = "cached",
                                 !.cached = o.data, !.missing = o.missing,
                                 !.progress = <<Frac(100, 1)>>, !.ret = o.data]
                    ELSE [begun EXCEPT !.pc = "batch", !.mode = "full",
                            !.cached = o.data, !.missing = o.missing, !.work = e_stocks,
                            !.batches = batches(e_stocks)]
    /\ UNCHANGED <<now, cret, last_save, proxyVars, fetchVars, calcVars, poolVars>>

\* lines 941-943 and 967-969: the bulk history download and the submission of a batch
BatchStart ==
    /\ scan.pc = "batch"
    /\ scan.bi < Len(scan.batches)
    /\ LET b == scan.batches[scan.bi + 1]
       IN scan' = [scan EXCEPT !.pc = "workers",
                     !.pending = (Len(scan.submitted) + 1)..(Len(scan.submitted) + Len(b)),
                     !.submitted = @ \o b,
                     !.max_workers = max_workers(Len(b)),
                     !.hist_fetches = @ + 1]
    /\ UNCHANGED <<cacheVars, proxyVars, fetchVars, calcVars, poolVars>>

\* a worker thread of the executor takes the next submitted future and begins
\* analyze_stock for it; the executor has max_workers threads
WorkerStart ==
    /\ scan.pc = "workers"
    /\ scan.started < Len(scan.submitted)
    /\ Cardinality(running(scan)) < scan.max_workers
    /\ scan' = [scan EXCEPT !.started = @ + 1]
    /\ UNCHANGED <<cacheVars, proxyVars, fetchVars, calcVars, poolVars>>

\* lines 944-955 and 970-981: the future of position i completed with result r
WorkerDone(i, r) ==
    /\ scan.pc = "workers"
    /\ i \in running(scan)
    /\ r \in analyze_stock(scan.submitted[i])
    /\ LET done == scan.done + 1
           total == Len(scan.work)
           left == after_result(scan.pending \ {i}, r)
           val == progress_value(scan.mode, done, total)
           stepped == [scan EXCEPT !.done = done, !.pending = left, !.analysed = @ + 1,
                         !.completed = @ \cup {i},
                         !.refilled = IF scan.mode = "backfill" THEN @ /\ complete_data(r)
                                      ELSE @,
                         !.progress = Append(@, val),
                         !.results = IF scan.mode = "backfill" THEN @
                                     ELSE [p \in DOMAIN @ \cup {i} |-> IF p = i THEN r ELSE @[p]],
                         !.pc = IF all_completed(left) THEN "batch" ELSE "workers",
                         !.bi = IF all_completed(left) THEN @ + 1 ELSE @]
       IN IF scan.mode = "backfill"
          THEN /\ scan' = stepped
               /\ store' = IF r # <<>>
                           THEN update_missing_data(store, scan.ds, scan.e_stocks, r[1]).store
                           ELSE store
          ELSE /\ scan' = [stepped EXCEPT !.recommended = @ \o r, !.appended = @ \o r]
               /\ UNCHANGED store
    /\ UNCHANGED <<now, cret, last_save, proxyVars, fetchVars, calcVars, poolVars>>

\* lines 956-960 and 982-991: the end of the invocation
ScanFinish ==
    /\ scan.pc = "batch"
    /\ scan.bi >= Len(scan.batches)
    /\ IF scan.mode = "backfill"
       THEN LET o == get_data(store, now, scan.ds, scan.e_stocks)
            IN /\ store' = o.store
               /\ scan' = [scan EXCEPT !.pc = "returned", !.ret = o.data,
                             !.progress = Append(@, Frac(100, 1))]
       ELSE LET ranked == sort_ranked(scan.recommended)
            IN /\ store' = save_data(store, now, scan.ds, scan.e_stocks, ranked)
               /\ scan' = [scan EXCEPT !.pc = "returned", !.recommended = ranked,
                             !.ret = SomeList(ranked),
                             !.progress = Append(@, Frac(100, 1))]
    /\ UNCHANGED <<now, cret, last_save, proxyVars, fetchVars, calcVars, poolVars>>

\* the calendars fetched (an empty list when every attempt failed) and the
\* contents of the OTC file
CalendarSamples == {<<>>, <<"BBB", "AAA">>, <<"BBB", "CCC", "AAA">>}
OtcSamples == {{"CCC"}, {"AAA", "BBB", "CCC"}}

ScanNext ==
    \/ \E d \in SaveDates, cal \in CalendarSamples, otc \in OtcSamples : ScanStart(d, cal, otc)
    \/ BatchStart
    \/ WorkerStart
    \/ \E i \in 1..Len(Symbols), r \in UNION {analyze_stock(t) : t \in SymbolSet} : WorkerDone(i, r)
    \/ ScanFinish
    \/ Tick

\* A date whose calendar lists more tickers than one batch holds, scanned once
\* with an empty cache directory and no OTC file
BigCalendar ==
    <<"JJJ", "BBB", "III", "HHH", "CCC", "GGG", "FFF", "AAA", "EEE", "DDD", "KKK">>

FirstScan ==
    /\ scan.pc = "idle"
    /\ \E d \in SaveDates : ScanStart(d, BigCalendar, {})

BatchNext ==
    \/ FirstScan
    \/ BatchStart
    \/ WorkerStart
    \/ \E i \in 1..Len(Symbols), r \in UNION {analyze_stock(t) : t \in SymbolSet} : WorkerDone(i, r)
    \/ ScanFinish

\* The cache directory an earlier run left for the second date: the entry of a
\* scan of BigCalendar on a day on which every ticker had options and none had
\* quotes for the expected move, so that each result has a descriptor
RefillDate == "2025-01-11"
EarlierScan ==
    save_data(<<>>, Epoch, RefillDate, BigCalendar,
              sort_ranked([i \in 1..Len(BigCalendar) |->
                             Scored(BigCalendar[i], FALSE, "N/A", 150, -500, 40)]))

\* the results of the analyses while the threads of the executor are followed
PoolOutcomes == {<<>>, <<Scored("AAA", TRUE, "5.0%", 150, -500, 40)>>,
                 <<Scored("KKK", TRUE, "5.0%", 150, -500, 40)>>}

\* one scan of BigCalendar, of the date that has no entry or of the date that has one
PoolScan ==
    /\ scan.pc = "idle"
    /\ \E d \in Dates : ScanStart(d, BigCalendar, {})

PoolInit ==
    /\ store = EarlierScan
    /\ now = Epoch
    /\ cret = NoCall("init")
    /\ last_save = NoSave
    /\ scan = ScanIdle

PoolNext ==
    \/ PoolScan
    \/ BatchStart
    \/ WorkerStart
    \/ \E i \in 1..Len(Symbols), r \in PoolOutcomes : WorkerDone(i, r)
    \/ ScanFinish

---------------------------------------------------------------------------
(* The calls a retry loop makes, in order: each is the method, its argument *)
(* (an expiry, or the proxy of the session used) and whether it returned.   *)

Call(c, a, ok) == [call |-> c, arg |-> a, ok |-> ok]

\* the positions of a log that hold a call of method c with argument a
Calls(log, c, a) == {i \in 1..Len(log) : log[i].call = c /\ log[i].arg = a}
\* the positions of a log that hold a call of method c
CallsOf(log, c) == {i \in 1..Len(log) : log[i].call = c}

\* SessionManager.rotate_session followed, when refetch, by get_session: the
\* session manager m and the proxy manager after it, with the handle the caller
\* then holds
Rotated(m, held, refetch) ==
    {[current |-> o.current, session |-> o.session,
      held |-> IF refetch THEN o.session ELSE held] :
        o \in rotate_session(proxies, proxy_enabled, current_proxy, session[m])}

---------------------------------------------------------------------------
(* EnhancedEarningsScanner.analyze_stock of one ticker, with the            *)
(* OptionsAnalyzer.compute_recommendation call it makes.  reco.log holds    *)
(* the calls of the ticker-level attempt in progress, from the handler that *)
(* started it; it is dropped when compute_recommendation returns.           *)

\* for attempt in range(3)
attempts == 3

\* a loop whose counter stays where it is
same_attempt(attempt) == attempt

\* lines 529 and 553: the for statement gives the next pass the next number
next_attempt(attempt) == attempt + 1

\* line 658: the except handler of attempt number `attempt` goes on to another attempt
may_retry_again(attempt) == attempt < attempts
may_retry(attempt) == attempt < attempts - 1

\* lines 569-573: what the handler of a failed option_chain call does before it
\* asks for the chain again
no_chain_error_calls == <<>>
chain_error_calls == <<"rotate_session", "get_session">>

\* lines 540-546: the same for a failed price lookup that is not the last one
price_error_calls == <<"rotate_session", "get_session">>

\* the dict compute_recommendation returns: the error marker, or the measures
NoOd == [kind |-> "none"]
ErrorOd(msg) == [kind |-> "error", error |-> msg]
Od(avb, ivrv, slope) ==
    [kind |-> "ok", avg_volume |-> avb, iv30_rv30 |-> ivrv, term_slope |-> slope,
     term_structure |-> PyNum(40), expected_move |-> PyStr("5.0%")]

\* the measures a computation can come to: both sides of each threshold, and NaN
IvSamples == {PyNaN, PyNum(iv_threshold - 1), PyNum(iv_threshold)}
SlopeSamples == {PyNaN, PyNum(slope_threshold), PyNum(slope_threshold + 1)}
OdSamples == {Od(avb, iv, sl) : avb \in BOOLEAN, iv \in IvSamples, sl \in SlopeSamples}

\* the expiries filter_dates leaves
ExpirySamples == {<<"2025-02-21">>, <<"2025-02-21", "2025-03-21">>}

\* lines 1034-1081: the record analyze_stock builds from what compute_recommendation returned
build_record(tk, od) ==
    IF od.kind = "ok"
    THEN [Result(tk, get_earnings_time(tk),
                 recommendation(od.avg_volume, od.iv30_rv30, od.term_slope),
                 od.avg_volume, od.expected_move.s, 0, 0, od.term_structure.n)
            EXCEPT !.iv30_rv30 = od.iv30_rv30, !.term_slope = od.term_slope]
    ELSE ErrorResult(tk, get_earnings_time(tk))

\* a history call that answers whatever the ticker object is
history_of_any_ticker(use_finviz, ok) == ok

\* lines 137-143 and 525-537: whether ticker.history(period='1d') gave a price;
\* the history of a FinvizTicker raises NotImplementedError
history(use_finviz, ok) == IF use_finviz THEN FALSE ELSE ok

\* use_finviz is False in the analyzer the application constructs (line 1108)
RecoIdle ==
    [pc |-> "idle", symbol |-> "", exps |-> <<>>, attempt |-> 0, ei |-> 0, pa |-> 0,
     t_session |-> NoProxy, log |-> <<>>, od |-> NoOd, record |-> <<>>,
     use_finviz |-> FALSE]

\* one step of the analysis: the calls made are appended to the log, and a
\* rotate_session among them changes the analyzer's session and the proxy manager
Proceed(r2, done, after) ==
    LET logged == IF r2.pc = "computed" THEN [r2 EXCEPT !.log = <<>>]
                  ELSE [r2 EXCEPT !.log = @ \o done \o
                          [i \in 1..Len(after) |-> Call(after[i], "", TRUE)]]
    IN  /\ IF \E i \in 1..Len(after) : after[i] = "rotate_session"
           THEN /\ \E o \in Rotated("analyzer", r2.t_session,
                                    \E i \in 1..Len(after) : after[i] = "get_session") :
                      /\ current_proxy' = o.current
                      /\ session' = [session EXCEPT !["analyzer"] = o.session]
                      /\ reco' = [logged EXCEPT !.t_session = o.held]
                /\ UNCHANGED <<proxies, proxy_enabled, pret>>
           ELSE /\ reco' = logged
                /\ UNCHANGED proxyVars
        /\ UNCHANGED <<cacheVars, scanVars, calcVars, poolVars, fetch>>

\* lines 657-663: the except handler of the ticker-level attempt
Failed(r, done) ==
    IF may_retry(r.attempt)
    THEN Proceed([r EXCEPT !.pc = "options", !.attempt = next_attempt(@), !.ei = 0, !.pa = 0,
                     !.log = <<>>],
                 <<>>, <<"rotate_session">>)
    ELSE Proceed([r EXCEPT !.pc = "computed", !.od = ErrorOd("Err")], done, <<>>)

\* the loop over the expiries goes on to the next expiry, or ends
NextExpiry(r) ==
    IF r.ei < Len(r.exps) THEN [r EXCEPT !.pc = "chain", !.ei = @ + 1]
    ELSE [r EXCEPT !.pc = "price"]

\* lines 994-1032: the ticker is skipped (None), or its recommendation is computed
AnalyzeStart(tk, exps, skip) ==
    /\ reco.pc \in {"idle", "returned"}
    /\ reco' = IF skip THEN [RecoIdle EXCEPT !.pc = "returned", !.symbol = tk,
                                             !.use_finviz = reco.use_finviz]
               ELSE [RecoIdle EXCEPT !.pc = "options", !.symbol = tk, !.exps = exps,
                                     !.use_finviz = reco.use_finviz]
    /\ UNCHANGED <<cacheVars, proxyVars, scanVars, calcVars, poolVars, fetch>>

\* lines 555-563: get_ticker and t.options
FetchOptions(o) ==
    /\ reco.pc = "options"
    /\ LET r == [reco EXCEPT !.t_session = session["analyzer"]]
           done == <<Call("get_ticker", "", TRUE), Call("options", "", o # "raise")>>
       IN CASE o = "raise" -> Failed(r, done)
            [] o = "empty" ->
                 Proceed([r EXCEPT !.pc = "computed", !.od = ErrorOd("No options")], done, <<>>)
            [] o = "ok" -> Proceed([r EXCEPT !.pc = "chain", !.ei = 1], done, <<>>)

\* lines 565-568: the first request of the chain of expiry number ei
ChainRequest(ok) ==
    /\ reco.pc = "chain"
    /\ LET done == <<Call("option_chain", reco.exps[reco.ei], ok)>>
       IN IF ok THEN Proceed(NextExpiry(reco), done, <<>>)
          ELSE Proceed([reco EXCEPT !.pc = "retry"], done, chain_error_calls)

\* line 575: the second request, made inside the handler of the first
ChainRetry(ok) ==
    /\ reco.pc = "retry"
    /\ LET done == <<Call("option_chain", reco.exps[reco.ei], ok)>>
       IN IF ok THEN Proceed(NextExpiry(reco), done, <<>>)
          ELSE Failed(reco, done)

\* line 576 and get_current_price: one history call of the price lookup
PriceRequest(ok) ==
    /\ reco.pc = "price"
    /\ LET got == history(reco.use_finviz, ok)
           done == <<Call("history", "", got)>>
       IN IF got THEN Proceed([reco EXCEPT !.pc = "rest"], done, <<>>)
          ELSE IF reco.pa < attempts - 1
               THEN Proceed([reco EXCEPT !.pa = next_attempt(@)], done, price_error_calls)
               ELSE Failed(reco, done)

\* lines 577-656: the measures are computed from the chains
Rest(o) ==
    /\ reco.pc = "rest"
    /\ CASE o.kind = "raise" -> Failed(reco, <<Call("measures", "", FALSE)>>)
         [] o.kind = "no_atm" ->
              Proceed([reco EXCEPT !.pc = "computed", !.od = ErrorOd("No ATM IV found")],
                      <<Call("measures", "", TRUE)>>, <<>>)
         [] OTHER ->
              Proceed([reco EXCEPT !.pc = "computed", !.od = o],
                      <<Call("measures", "", TRUE)>>, <<>>)

\* lines 1033-1081: analyze_stock scores what compute_recommendation returned
AnalyzeFinish ==
    /\ reco.pc = "computed"
    /\ reco' = [reco EXCEPT !.pc = "returned", !.record = <<build_record(reco.symbol, reco.od)>>]
    /\ UNCHANGED <<cacheVars, proxyVars, scanVars, calcVars, poolVars, fetch>>

RecoInit == reco = RecoIdle

RecoNext ==
    \/ \E tk \in Optionable, exps \in ExpirySamples, skip \in BOOLEAN : AnalyzeStart(tk, exps, skip)
    \/ \E o \in {"raise", "empty", "ok"} : FetchOptions(o)
    \/ \E ok \in BOOLEAN : ChainRequest(ok)
    \/ \E ok \in BOOLEAN : ChainRetry(ok)
    \/ \E ok \in BOOLEAN : PriceRequest(ok)
    \/ \E o \in {[kind |-> "raise"], [kind |-> "no_atm"]} \cup OdSamples : Rest(o)
    \/ AnalyzeFinish
    \/ OnUpdateProxies

---------------------------------------------------------------------------
(* EarningsCalendarFetcher.fetch_earnings_data.  fetch.log holds the calls of *)
(* the invocation in progress.                                              *)

max_retries == 3

\* line 733: after the failure that made `attempt` failures, another attempt follows
calendar_retries_once_more(attempt) == attempt < max_retries + 1
calendar_retries(attempt) == attempt < max_retries

CalIdle == [pc |-> "idle", date |-> "", attempt |-> 0, log |-> <<>>, ret |-> NoneList]

\* line 684
FetchEarningsStart(date) ==
    /\ fetch.pc \in {"idle", "returned"}
    /\ fetch' = [CalIdle EXCEPT !.pc = "attempt", !.date = date]
    /\ UNCHANGED <<cacheVars, proxyVars, scanVars, calcVars, poolVars, reco>>

\* lines 688-739: one pass of the while loop; the request raised, or the page
\* was parsed into the list `parsed`
FetchEarningsAttempt(raised, parsed) ==
    /\ fetch.pc = "attempt"
    /\ LET posted == [fetch EXCEPT !.log = Append(@, Call("post", session["calendar"], ~raised))]
           attempt == fetch.attempt + 1
       IN IF ~raised
          THEN /\ fetch' = [posted EXCEPT !.pc = "returned", !.ret = SomeList(parsed)]
               /\ UNCHANGED proxyVars
          ELSE IF calendar_retries(attempt)
          THEN /\ \E o \in Rotated("calendar", NoProxy, FALSE) :
                     /\ current_proxy' = o.current
                     /\ session' = [session EXCEPT !["calendar"] = o.session]
               /\ fetch' = [posted EXCEPT !.attempt = attempt,
                            !.log = Append(@, Call("rotate_session", "", TRUE))]
               /\ UNCHANGED <<proxies, proxy_enabled, pret>>
          ELSE /\ fetch' = [posted EXCEPT !.pc = "returned", !.attempt = attempt,
                            !.ret = SomeList(<<>>)]
               /\ UNCHANGED proxyVars
    /\ UNCHANGED <<cacheVars, scanVars, calcVars, poolVars, reco>>

CalInit == fetch = CalIdle

CalendarNext ==
    \/ \E d \in SaveDates : FetchEarningsStart(d)
    \/ \E raised \in BOOLEAN, parsed \in CalendarSamples : FetchEarningsAttempt(raised, parsed)
    \/ OnUpdateProxies
    \/ ToggleProxy

---------------------------------------------------------------------------
(* OptionsAnalyzer: the helpers of compute_recommendation.  An expiry is    *)
(* the string of its date; strptime and strftime go between the strings    *)
(* and the days of the calendar below.  Prices are in cents, implied       *)
(* volatilities are scaled by 100.                                         *)

\* the dates of the calendar, with their day counted from 2025-01-10
DateTable ==
    <<[s |-> "2025-01-10", n |-> 0], [s |-> "2025-01-17", n |-> 7],
      [s |-> "2025-02-23", n |-> 44], [s |-> "2025-02-24", n |-> 45],
      [s |-> "2025-03-03", n |-> 52], [s |-> "2025-03-11", n |-> 60]>>
DateStrings == {DateTable[i].s : i \in 1..Len(DateTable)}

\* datetime.strptime(d, "%Y-%m-%d").date() and x.strftime("%Y-%m-%d")
strptime(s) == (CHOOSE e \in Range(DateTable) : e.s = s).n
strftime(n) == (CHOOSE e \in Range(DateTable) : e.n = n).s

\* the days on which the program runs
TodaySamples == {0, 7}

\* sorted(...) of dates
RECURSIVE InsertDay(_, _)
InsertDay(x, s) ==
    IF s = <<>> THEN <<x>>
    ELSE IF x <= Head(s) THEN <<x>> \o s
    ELSE <<Head(s)>> \o InsertDay(x, Tail(s))
RECURSIVE sorted_dates(_)
sorted_dates(s) == IF s = <<>> THEN <<>> ELSE InsertDay(Head(s), sorted_dates(Tail(s)))

\* line 450: cutoff = today + timedelta(days=45)
cutoff_days == 45

\* lines 448-462
filter_dates(today, dates) ==
    LET cutoff == today + cutoff_days
        sdates == sorted_dates([i \in 1..Len(dates) |-> strptime(dates[i])])
        hits == {i \in 1..Len(sdates) : sdates[i] >= cutoff}
        first == CHOOSE i \in hits : \A j \in hits : i <= j
        arr == IF hits = {} THEN <<>> ELSE [i \in 1..first |-> strftime(sdates[i])]
    IN IF arr # <<>>
       THEN IF arr[1] = strftime(today) /\ Len(arr) > 1 THEN Tail(arr) ELSE arr
       ELSE [i \in 1..Len(sdates) |-> strftime(sdates[i])]

\* a float as the fraction n/d, and NaN
Float(n, d) == [t |-> "num", n |-> n, d |-> d]
FloatNaN == [t |-> "nan", n |-> 0, d |-> 1]

\* lines 507-510: the arrays of days and volatilities, ordered by da.argsort()
RECURSIVE InsertPoint(_, _)
InsertPoint(x, s) ==
    IF s = <<>> THEN <<x>>
    ELSE IF x.d <= Head(s).d THEN <<x>> \o s
    ELSE <<Head(s)>> \o InsertPoint(x, Tail(s))
RECURSIVE sort_points(_)
sort_points(s) == IF s = <<>> THEN <<>> ELSE InsertPoint(Head(s), sort_points(Tail(s)))
build_term_structure(days, ivs) ==
    sort_points([i \in 1..Len(days) |-> [d |-> days[i], v |-> ivs[i]]])

\* line 511: f = interp1d(da, va, kind='linear', fill_value="extrapolate"), called
\* at x: the line through the two points around x, the first two below the
\* domain and the last two above it; one point alone gives the slope 0/0
interp1d_call(pts, x) ==
    LET n == Len(pts)
        below == Cardinality({i \in 1..n : pts[i].d < x})
        hi == (IF below < 1 THEN 1 ELSE IF below > n - 1 THEN n - 1 ELSE below) + 1
        lo == hi - 1
    IN IF n < 2 THEN FloatNaN
       ELSE Float(pts[lo].v * (pts[hi].d - pts[lo].d)
                    + (pts[hi].v - pts[lo].v) * (x - pts[lo].d),
                  pts[hi].d - pts[lo].d)

\* the interpolant called without the guards of tspline
tspline_extrapolating(pts, dte) == interp1d_call(pts, dte)

\* lines 512-518
tspline(pts, dte) ==
    IF dte < pts[1].d THEN Float(pts[1].v, 1)
    ELSE IF dte > pts[Len(pts)].d THEN Float(pts[Len(pts)].v, 1)
    ELSE interp1d_call(pts, dte)

\* an option chain of one expiry: empty frames, or the bid and ask of the call
\* and of the put whose strike is nearest to the price
Chain(cbid, cask, pbid, pask) ==
    [empty |-> FALSE, cbid |-> cbid, cask |-> cask, pbid |-> pbid, pask |-> pask]
EmptyChain == [empty |-> TRUE, cbid |-> PyNone, cask |-> PyNone, pbid |-> PyNone, pask |-> PyNone]

\* bool(v), and v > 0, of a quote
py_bool(v) == IF v.t = "none" THEN FALSE ELSE IF v.t = "num" THEN v.n # 0 ELSE TRUE
gt_zero(v) == v.t = "num" /\ v.n > 0

\* lines 603-604
quotes_pass(c) ==
    /\ py_bool(c.cbid) /\ py_bool(c.cask) /\ gt_zero(c.cbid) /\ gt_zero(c.cask)
    /\ py_bool(c.pbid) /\ py_bool(c.pask) /\ gt_zero(c.pbid) /\ gt_zero(c.pask)

\* lines 586-608: stprice after the loop over the chains, in half cents:
\* midc + midp = (cbid + cask)/2 + (pbid + pask)/2
RECURSIVE atm_loop(_, _, _)
atm_loop(oc, i, stprice) ==
    IF oc = <<>> THEN stprice
    ELSE LET c == Head(oc)
         IN IF c.empty THEN atm_loop(Tail(oc), i, stprice)
            ELSE atm_loop(Tail(oc), i + 1,
                          IF i = 0 /\ quotes_pass(c)
                          THEN PyNum(c.cbid.n + c.cask.n + c.pbid.n + c.pask.n)
                          ELSE stprice)

\* the quotient a/b rounded to the nearest integer
round_div(a, b) == (2 * a + b) \div (2 * b)

\* the string f"{x}%" of a number of hundredths of a percent
Percent(h) == [t |-> "str", n |-> h, s |-> "%"]

\* lines 643-645: stprice in half cents, up in cents
stpct(stprice, up) ==
    IF py_bool(stprice) /\ up # 0 THEN Percent(round_div(stprice.n * 5000, up)) ELSE PyStr("N/A")

\* one call of a helper is looked at: its arguments and what it returned
CalcIdle ==
    [op |-> "", today |-> 0, dates |-> <<>>, days |-> <<>>, ivs |-> <<>>, dte |-> 0,
     oc |-> <<>>, up |-> 0, ret |-> <<>>]

\* exps = self.filter_dates(exps), on the day `today`
FilterDates(today, dates) ==
    /\ calc.op = ""
    /\ calc' = [CalcIdle EXCEPT !.op = "filter_dates", !.today = today, !.dates = dates,
                  !.ret = filter_dates(today, dates)]
    /\ UNCHANGED <<cacheVars, proxyVars, scanVars, fetchVars, poolVars>>

\* spline = self.build_term_structure(ds, vs); spline(dte)
BuildTermStructure(days, ivs, dte) ==
    /\ calc.op = ""
    /\ Len(days) = Len(ivs)
    /\ days # <<>>
    /\ \A i, j \in 1..Len(days) : i # j => days[i] # days[j]
    /\ calc' = [CalcIdle EXCEPT !.op = "tspline", !.days = days, !.ivs = ivs, !.dte = dte,
                  !.ret = tspline(build_term_structure(days, ivs), dte)]
    /\ UNCHANGED <<cacheVars, proxyVars, scanVars, fetchVars, poolVars>>

\* lines 586-608 and 643-645 for the chains oc of the filtered expiries, nearest
\* first, and the price up
ExpectedMove(oc, up) ==
    /\ calc.op = ""
    /\ calc' = [CalcIdle EXCEPT !.op = "expected_move", !.oc = oc, !.up = up,
                  !.ret = stpct(atm_loop(oc, 0, PyNone), up)]
    /\ UNCHANGED <<cacheVars, proxyVars, scanVars, fetchVars, poolVars>>

\* the sequences of at most n members of S
SeqsUpTo(S, n) == UNION {[1..k -> S] : k \in 0..n}

\* the expiry lists a ticker can have: no date twice
ExpiryLists ==
    {s \in SeqsUpTo(DateStrings, MaxExpiries) : \A i, j \in 1..Len(s) : i # j => s[i] # s[j]}
DaySamples == {7, 30, 45, 60}
IvLevels == {30, 50}
DteSamples == {0, 30, 45, 90}
ChainSamples ==
    {EmptyChain,
     Chain(PyNum(100), PyNum(120), PyNum(90), PyNum(110)),
     Chain(PyNum(300), PyNum(340), PyNum(280), PyNum(300)),
     Chain(PyNum(0), PyNum(120), PyNum(90), PyNum(110)),
     Chain(PyNum(100), PyNum(120), PyNum(90), PyNaN)}
PriceSamples == {0, 5000}

CalcInit == calc = CalcIdle

CalcNext ==
    \/ \E today \in TodaySamples, dates \in ExpiryLists : FilterDates(today, dates)
    \/ \E days \in SeqsUpTo(DaySamples, MaxExpiries), ivs \in SeqsUpTo(IvLevels, MaxExpiries),
          dte \in DteSamples : BuildTermStructure(days, ivs, dte)
    \/ \E oc \in SeqsUpTo(ChainSamples, MaxExpiries), up \in PriceSamples : ExpectedMove(oc, up)

---------------------------------------------------------------------------
(* The specifications *)

ScanInit == scan = ScanIdle

Init == CacheInit /\ ProxyInit /\ ScanInit /\ RecoInit /\ CalInit /\ CalcInit

SpecCache == Init /\ [][CacheNext]_vars
SpecCacheTTL == Init /\ [][CacheTTLNext]_vars
SpecProxy == Init /\ [][ProxyNext]_vars
SpecScan == Init /\ [][ScanNext]_vars
SpecBatch == Init /\ [][BatchNext]_vars
SpecReco == Init /\ [][RecoNext]_vars
SpecCalendar == Init /\ [][CalendarNext]_vars
SpecCalc == Init /\ [][CalcNext]_vars
SpecPurge == Init /\ [][PurgeNext]_vars
PoolStart == PoolInit /\ ProxyInit /\ RecoInit /\ CalInit /\ CalcInit
SpecPool == PoolStart /\ [][PoolNext]_vars
SpecBuild == Init /\ [][BuildNext]_vars
\* the calendar fetch of a scan and the analysis of a ticker, every provider
\* call of theirs succeeding or failing
RetryNext ==
    \/ \E d \in SaveDates : FetchEarningsStart(d)
    \/ \E raised \in BOOLEAN, parsed \in CalendarSamples : FetchEarningsAttempt(raised, parsed)
    \/ \E tk \in Optionable, exps \in ExpirySamples, skip \in BOOLEAN : AnalyzeStart(tk, exps, skip)
    \/ \E o \in {"raise", "empty", "ok"} : FetchOptions(o)
    \/ \E ok \in BOOLEAN : ChainRequest(ok)
    \/ \E ok \in BOOLEAN : ChainRetry(ok)
    \/ \E ok \in BOOLEAN : PriceRequest(ok)
    \/ \E o \in {[kind |-> "raise"], [kind |-> "no_atm"]} \cup OdSamples : Rest(o)
    \/ AnalyzeFinish
SpecRetry == Init /\ [][RetryNext]_vars
\* an analyzer constructed with either data source
SourceInit == reco \in {[RecoIdle EXCEPT !.use_finviz = b] : b \in BOOLEAN}
SourceStart == CacheInit /\ ProxyInit /\ ScanInit /\ SourceInit /\ CalInit /\ CalcInit
SpecSource == SourceStart /\ [][RecoNext]_vars
RotateStart == CacheInit /\ RotateInit /\ ScanInit /\ RecoInit /\ CalInit /\ CalcInit
SpecRotate == RotateStart /\ [][RotateNext]_vars

---------------------------------------------------------------------------
(* DataCache: the properties *)

\* a difference of two datetimes, in half days
HalfDays(a, b) == (2 * a.d + a.h) - (2 * b.d + b.h)
SevenDaysOrMore(a, b) == HalfDays(a, b) >= 2 * cache_expiry_days

\* a value that is not null, not the number zero and not the "N/A" marker
Populated(v) == v.t # "none" /\ ~(v.t = "num" /\ v.n = 0) /\ v # PyStr("N/A")

\* C1: the cache key of a ticker list is the cache key of every permutation of it:
\* the file a get, save or update call addressed is the one it addresses with the
\* list reordered, and every stored entry lies under the key of every ordering of
\* the ticker list it was saved with.
C1_KeyOrderIndependent ==
    /\ cret.op \in {"get", "save", "update"} =>
          \A p \in Perms(cret.tickers) : _get_cache_key(cret.date, p) = cret.key
    /\ \A k \in DOMAIN store : store[k].ok =>
          \A p \in Perms(store[k].tickers) : _get_cache_key(store[k].date, p) = k

\* C1 witness: a get found the entry that was saved with another ordering of the list
C1_Witness ==
    /\ cret.op = "get" /\ cret.branch = "hit"
    /\ cret.key \in DOMAIN store
    /\ store[cret.key].ok
    /\ store[cret.key].tickers # cret.tickers
    /\ Len(cret.tickers) = 3

\* C2 (as claimed): update_missing_data leaves every populated field of every
\* stored record as it was.
C2_PopulatedFieldsKept ==
    [][\A r \in RecordSamples :
         (cret'.op = "update" /\ UpdateMissingData(cret'.date, cret'.tickers, r)) =>
            \A k \in DOMAIN store : store[k].ok =>
               /\ k \in DOMAIN store'
               /\ Len(store'[k].data) = Len(store[k].data)
               /\ \A i \in 1..Len(store[k].data) : \A f \in DOMAIN store[k].data[i] :
                     Populated(store[k].data[i][f]) =>
                        store'[k].data[i][f] = store[k].data[i][f]]_vars

\* C4 (as claimed): a get on an unreadable entry reports a miss and removes the file.
C4_UnreadableDeletedOnGet ==
    [][LET k == cret'.key
       IN (/\ cret'.op = "get" /\ GetData(cret'.date, cret'.tickers)
           /\ k \in DOMAIN store /\ ~store[k].ok) =>
               /\ cret'.data = NoneList
               /\ cret'.missing = <<>>
               /\ k \notin DOMAIN store']_vars

\* C5: a get on a readable entry aged 7 days or more reports it absent and removes
\* its file; a get on a younger readable entry returns its results and its
\* missing-field list and leaves the files as they are.
C5_ExpiryOnGet ==
    [][LET k == cret'.key
       IN (/\ cret'.op = "get" /\ GetData(cret'.date, cret'.tickers)
           /\ k \in DOMAIN store /\ store[k].ok) =>
               IF SevenDaysOrMore(now, store[k].timestamp)
               THEN /\ cret'.data = NoneList
                    /\ cret'.missing = <<>>
                    /\ k \notin DOMAIN store'
                    /\ \A x \in DOMAIN store \ {k} : x \in DOMAIN store' /\ store'[x] = store[x]
               ELSE /\ cret'.data = SomeList(store[k].data)
                    /\ cret'.missing = store[k].missing_data
                    /\ store' = store]_vars

\* C5 witness: a get removed an entry that was exactly 7 days old
C5_Witness ==
    /\ cret.op = "get" /\ cret.branch = "expired"
    /\ cret.key \notin DOMAIN store
    /\ last_save.valid /\ _get_cache_key(last_save.date, last_save.tickers) = cret.key
    /\ HalfDays(now, last_save.at) = 2 * cache_expiry_days

\* C6: a get with the date and ticker list of the last save, less than 7 days after
\* it and with no write to the entry in between, returns the list that was saved.
C6_SaveGetRoundTrip ==
    [][(/\ cret'.op = "get" /\ GetData(cret'.date, cret'.tickers)
        /\ last_save.valid /\ last_save.date = cret'.date /\ last_save.tickers = cret'.tickers
        /\ ~SevenDaysOrMore(now, last_save.at)) =>
            /\ cret'.data = SomeList(last_save.data)
            /\ cret'.missing = _identify_missing_data(last_save.data)]_vars

\* C6 witness: a get returned the non-empty list saved more than 6 days before
C6_Witness ==
    /\ cret.op = "get" /\ cret.branch = "hit"
    /\ last_save.valid /\ last_save.date = cret.date /\ last_save.tickers = cret.tickers
    /\ cret.data = SomeList(last_save.data) /\ last_save.data # <<>>
    /\ HalfDays(now, last_save.at) = 2 * cache_expiry_days - 1

---------------------------------------------------------------------------
(* The scan: the properties *)

\* C3 (as claimed): when the cache check of a scan finds an entry (get_data returns
\* a list, not None) whose missing-field list is empty, whatever the list holds,
\* the scan downloads no history, analyses no ticker, reports progress 100 and
\* returns the cached list.
C3_CompleteHitReturnsCached ==
    (scan.pc # "idle" /\ scan.e_stocks # <<>> /\ scan.cached.some /\ scan.missing = <<>>) =>
        /\ scan.pc = "returned"
        /\ scan.hist_fetches = 0
        /\ scan.analysed = 0
        /\ scan.progress = <<Frac(100, 1)>>
        /\ scan.ret = scan.cached

\* the results of the per-ticker analyses of a scan, in the order of the working list
RECURSIVE InWorkOrder(_, _)
InWorkOrder(results, n) ==
    IF n = 0 THEN <<>> ELSE InWorkOrder(results, n - 1) \o results[n]

FullScanReturned == scan.pc = "returned" /\ scan.mode = "full"

\* C11 (as claimed): a scan that has returned has returned a list, never None.
C11_ScanReturnsList == scan.pc = "returned" => scan.ret.some

\* C12: a ticker whose analysis yields no result takes nothing else with it: a
\* full scan that has returned has analysed every ticker of every batch, its
\* result holds the records of exactly the tickers whose analysis yielded one,
\* and while a batch is being waited for, every future of it that has not
\* completed is still waited for, whatever the completed ones yielded.
C12_FailuresAreLocal ==
    /\ FullScanReturned =>
          /\ DOMAIN scan.results = 1..Len(scan.work)
          /\ scan.analysed = Len(scan.work)
          /\ Len(scan.ret.v) =
               Cardinality({p \in 1..Len(scan.work) : scan.results[p] # <<>>})
          /\ \A p \in 1..Len(scan.work) :
               scan.results[p] # <<>> => scan.results[p][1] \in Range(scan.ret.v)
    /\ (scan.pc = "workers" /\ scan.mode = "full") =>
          /\ scan.pending # {}
          /\ scan.pending =
               BatchPositions(scan.bi, Len(scan.work)) \ DOMAIN scan.results

\* C12 witness: a scan of two batches returned the records of the tickers that
\* did not fail, after failures in each batch
C12_Witness ==
    /\ FullScanReturned
    /\ Len(scan.work) > batch_size
    /\ scan.results[Len(scan.work)] = <<>>
    /\ \E p, q \in 1..batch_size : scan.results[p] = <<>> /\ scan.results[q] # <<>>
    /\ scan.ret.v # <<>>

\* the ranking of the claim: Recommended first, then known timing before Unknown,
\* then the timing label, then the ticker symbol
RankedBefore(a, b) ==
    LET ra == a.recommendation.s = "Recommended"
        rb == b.recommendation.s = "Recommended"
        ua == a.earnings_time.s = "Unknown"
        ub == b.earnings_time.s = "Unknown"
    IN IF ra # rb THEN ra
       ELSE IF ua # ub THEN ub
       ELSE IF a.earnings_time.s # b.earnings_time.s
            THEN TimingRank(a.earnings_time.s) < TimingRank(b.earnings_time.s)
       ELSE Rank(a.ticker.s) <= Rank(b.ticker.s)

\* C18: the list a full scan returns is in ascending order of the ranking.
C18_ReturnedListRanked ==
    FullScanReturned =>
        \A i, j \in 1..Len(scan.ret.v) : i < j => RankedBefore(scan.ret.v[i], scan.ret.v[j])

\* C18 witness: a Recommended result stands before a result of a ticker that is
\* alphabetically smaller, and a known timing before an Unknown one
C18_Witness ==
    /\ FullScanReturned
    /\ Len(scan.ret.v) >= 3
    /\ \E i, j \in 1..Len(scan.ret.v) :
          /\ i < j
          /\ scan.ret.v[i].recommendation.s = "Recommended"
          /\ scan.ret.v[j].recommendation.s # "Recommended"
          /\ Rank(scan.ret.v[j].ticker.s) < Rank(scan.ret.v[i].ticker.s)
    /\ \E i, j \in 1..Len(scan.ret.v) :
          /\ i < j
          /\ scan.ret.v[i].recommendation.s = scan.ret.v[j].recommendation.s
          /\ scan.ret.v[i].earnings_time.s # "Unknown"
          /\ scan.ret.v[j].earnings_time.s = "Unknown"

\* C19: the list a full scan returns is a function of the per-ticker results
\* alone: it is the ranking of the results taken in the order of the working
\* list, in whatever order the futures completed.
C19_OrderIndependentOfCompletion ==
    FullScanReturned =>
        scan.ret.v = sort_ranked(InWorkOrder(scan.results, Len(scan.work)))

\* C19 witness: the results were appended in an order that is neither the order
\* of the working list nor the returned order
C19_Witness ==
    /\ FullScanReturned
    /\ Len(scan.work) > batch_size
    /\ Len(scan.appended) >= 3
    /\ scan.appended # InWorkOrder(scan.results, Len(scan.work))
    /\ scan.appended # scan.ret.v
    /\ scan.ret.v = sort_ranked(InWorkOrder(scan.results, Len(scan.work)))

\* C20: the working list of a backfill holds exactly the tickers the entry's
\* missing-field descriptors name, the working list of a full scan is the whole
\* eligible list, a plain cache hit works on nothing, and only positions of the
\* working list are ever submitted or analysed.
C20_WorkingSet ==
    /\ scan.mode = "backfill" =>
          /\ scan.missing # <<>>
          /\ Len(scan.work) = Len(scan.missing)
          /\ \A t \in SymbolSet :
                (t \in Range(scan.work)) <=>
                   (\E i \in 1..Len(scan.missing) : scan.missing[i].ticker = PyStr(t))
    /\ scan.mode = "full" => scan.work = scan.e_stocks
    /\ scan.mode = "cached" => scan.work = <<>> /\ scan.analysed = 0 /\ scan.hist_fetches = 0
    /\ scan.pending \subseteq 1..Len(scan.work)
    /\ scan.analysed <= Len(scan.work)
    /\ (scan.pc = "returned" /\ scan.mode \in {"backfill", "full"}) =>
          scan.analysed = Len(scan.work)

\* C20 witness: a backfill re-analysed the one ticker the entry named, of two eligible
C20_Witness ==
    /\ scan.pc = "returned" /\ scan.mode = "backfill"
    /\ Len(scan.e_stocks) = 2
    /\ Len(scan.work) = 1
    /\ scan.analysed = 1

---------------------------------------------------------------------------
(* analyze_stock and compute_recommendation: the properties *)

\* a step in which the ticker-level attempt in progress raises
AttemptFails ==
    \/ FetchOptions("raise")
    \/ ChainRetry(FALSE)
    \/ (reco.pa = 2 /\ PriceRequest(FALSE))
    \/ Rest([kind |-> "raise"])

\* C13: compute_recommendation makes at most 3 attempts; an attempt that raises
\* is followed, when it is the first or the second, by a call of rotate_session
\* and then the next attempt, and, when it is the third, by the return of the
\* error marker; an attempt that computes the measures returns them at once.
C13_TickerLevelRetry ==
    [][/\ reco'.attempt < 3
       /\ AttemptFails =>
            IF reco.attempt < 2
            THEN /\ reco'.pc = "options"
                 /\ reco'.attempt = reco.attempt + 1
                 /\ reco'.log = <<Call("rotate_session", "", TRUE)>>
            ELSE /\ reco'.pc = "computed"
                 /\ reco'.od = ErrorOd("Err")
                 /\ reco'.attempt = reco.attempt
                 /\ UNCHANGED <<current_proxy, session>>
       /\ \A o \in OdSamples :
            Rest(o) => reco'.pc = "computed" /\ reco'.od = o /\ reco'.attempt = reco.attempt
      ]_vars

\* C13 witness: the third attempt failed and analyze_stock returned the error record
C13_Witness ==
    /\ reco.pc = "returned"
    /\ reco.attempt = 2
    /\ reco.od = ErrorOd("Err")
    /\ reco.record = <<ErrorResult(reco.symbol, get_earnings_time(reco.symbol))>>

\* C14 (as claimed): when the second request of the chain of an expiry fails and
\* expiries remain, the same attempt goes on to the first request of the next expiry.
C14_ExpiryFailureIsLocal ==
    [][(ChainRetry(FALSE) /\ reco.ei < Len(reco.exps)) =>
          /\ reco'.attempt = reco.attempt
          /\ reco'.pc = "chain"
          /\ reco'.ei = reco.ei + 1]_vars

\* C15: within a ticker-level attempt the chain of an expiry is requested at
\* most twice; a second request follows a failed first one, with exactly a
\* rotate_session and a get_session between them, and it is made with the
\* session the session manager holds then.
C15_ExpiryRetryBound ==
    /\ \A e \in Range(reco.exps) :
          LET reqs == Calls(reco.log, "option_chain", e)
          IN /\ Cardinality(reqs) <= 2
             /\ \A i, j \in reqs :
                   i < j => /\ ~reco.log[i].ok
                            /\ j = i + 3
                            /\ reco.log[i + 1] = Call("rotate_session", "", TRUE)
                            /\ reco.log[i + 2] = Call("get_session", "", TRUE)
    /\ \A i \in CallsOf(reco.log, "option_chain") :
          (~reco.log[i].ok /\ i < Len(reco.log)) =>
               reco.log[i + 1] = Call("rotate_session", "", TRUE)
    /\ reco.pc = "retry" => reco.t_session = session["analyzer"]

\* C15 witness: a chain was requested twice and the second request, made over a
\* proxy of a pool of 2, succeeded
C15_Witness ==
    /\ reco.pc \in {"chain", "price"}
    /\ Len(proxies) = 2 /\ proxy_enabled
    /\ reco.t_session \in Range(proxies)
    /\ \E e \in Range(reco.exps) :
          \E i, j \in Calls(reco.log, "option_chain", e) : i < j /\ reco.log[j].ok

\* C17: the tier of a scored record.  With avgVolumeOK the avg_volume flag,
\* ivOK the ratio being a number of at least 1.25 and slopeOK the slope being a
\* number of at most -0.00406: Recommended iff all three, Consider iff slopeOK
\* and exactly one of the other two, Avoid otherwise; a NaN ratio is not ivOK.
C17_ScoreTiers ==
    (reco.pc = "returned" /\ reco.od.kind = "ok") =>
        LET rec == reco.record[1].recommendation.s
            avgVolumeOK == reco.od.avg_volume
            ivOK == reco.od.iv30_rv30.t = "num" /\ reco.od.iv30_rv30.n >= 125
            slopeOK == reco.od.term_slope.t = "num" /\ reco.od.term_slope.n <= 0 - 406
        IN /\ rec \in {"Recommended", "Consider", "Avoid"}
           /\ rec = "Recommended" <=> (avgVolumeOK /\ ivOK /\ slopeOK)
           /\ rec = "Consider" <=> (slopeOK /\ (avgVolumeOK # ivOK))
           /\ reco.od.iv30_rv30 = PyNaN => rec # "Recommended"
           /\ reco.record[1].avg_volume = PyBool(avgVolumeOK)
           /\ reco.record[1].iv30_rv30 = reco.od.iv30_rv30
           /\ reco.record[1].term_slope = reco.od.term_slope

\* C17 witness: a NaN ratio with the two other thresholds passed scored Consider
C17_Witness ==
    /\ reco.pc = "returned" /\ reco.od.kind = "ok"
    /\ reco.od.iv30_rv30 = PyNaN
    /\ reco.od.avg_volume
    /\ reco.od.term_slope = PyNum(0 - 406)
    /\ reco.record[1].recommendation.s = "Consider"

---------------------------------------------------------------------------
(* fetch_earnings_data: the properties *)

\* C16: fetch_earnings_data posts at most 3 times, each time over the session
\* its session manager holds then; a failed post is followed by a
\* rotate_session when it is the first or the second and by the return of the
\* empty list when it is the third; the first post that succeeds returns the
\* parsed list.
C16_CalendarRetry ==
    [][LET posts == CallsOf(fetch'.log, "post")
           failures == {i \in posts : ~fetch'.log[i].ok}
           rotations == CallsOf(fetch'.log, "rotate_session")
       IN /\ Cardinality(posts) <= 3
          /\ fetch'.attempt = Cardinality(failures)
          /\ rotations = {i + 1 : i \in {j \in failures : Cardinality({k \in failures : k <= j}) < 3}}
          /\ \A i \in posts : fetch'.log[i].ok => i = Len(fetch'.log) /\ fetch'.pc = "returned"
          /\ (fetch'.pc = "returned") <=>
                (Cardinality(failures) = 3 \/ \E i \in posts : fetch'.log[i].ok)
          /\ (fetch'.pc = "returned" /\ Cardinality(failures) = 3) =>
                fetch'.ret = SomeList(<<>>)
          /\ \A raised \in BOOLEAN, parsed \in CalendarSamples :
                FetchEarningsAttempt(raised, parsed) =>
                   /\ fetch'.log[Len(fetch.log) + 1] = Call("post", session["calendar"], ~raised)
                   /\ ~raised => fetch'.ret = SomeList(parsed)
      ]_vars

\* C16 witness: three posts failed, over two different proxies, and the empty
\* list was returned
C16_Witness ==
    /\ fetch.pc = "returned"
    /\ fetch.attempt = 3
    /\ fetch.ret = SomeList(<<>>)
    /\ Cardinality(CallsOf(fetch.log, "rotate_session")) = 2
    /\ \E i, j \in CallsOf(fetch.log, "post") :
          /\ fetch.log[i].arg # fetch.log[j].arg
          /\ fetch.log[i].arg # NoProxy
          /\ fetch.log[j].arg # NoProxy

---------------------------------------------------------------------------
(* ProxyManager and SessionManager: the properties *)

\* C7 (as claimed): the current proxy, when set, is a member of the validated pool.
C7_CurrentInPool == current_proxy # NoProxy => current_proxy \in Range(proxies)

\* C8: rotate_proxy on a disabled pool or a pool of fewer than 2 proxies returns
\* None and leaves the current proxy; on an enabled pool of 2 or more it returns
\* the proxy it makes current, a member of the pool that differs from the proxy
\* current before (the other one, when the pool holds 2 and the current one is
\* one of them); it never changes the pool.
C8_RotateSelectsAnother ==
    [][RotateProxy =>
         /\ proxies' = proxies
         /\ IF ~proxy_enabled \/ Len(proxies) < 2
            THEN pret'.ret = NoProxy /\ current_proxy' = current_proxy
            ELSE /\ pret'.ret = current_proxy'
                 /\ current_proxy' \in Range(proxies)
                 /\ current_proxy' # current_proxy
                 /\ (Len(proxies) = 2 /\ current_proxy \in Range(proxies)) =>
                       Range(proxies) = {current_proxy, current_proxy'}]_vars

\* C8 witness: on a pool of 2 with one of them current, rotate_proxy returned the other
C8_Witness ==
    /\ pret.op = "rotate_proxy"
    /\ Len(proxies) = 2
    /\ pret.prev \in Range(proxies)
    /\ pret.ret \in Range(proxies)
    /\ pret.ret # pret.prev
    /\ current_proxy = pret.ret

\* C9 (as claimed): when rotate_proxy chose a proxy inside rotate_session, the
\* manager's session after the call is bound to that proxy, which is the current
\* proxy and differs from the proxy current before the call.
C9_SessionBoundToRotated ==
    [][\A m \in Managers :
         (RotateSession(m) /\ pret'.rotated # NoProxy) =>
            /\ session'[m] = pret'.rotated
            /\ current_proxy' = pret'.rotated
            /\ session'[m] # current_proxy]_vars

\* C10 (as claimed): once a current proxy of the pool is set, get_proxy on an
\* enabled pool returns it and leaves the current proxy and the pool as they are.
C10_GetProxyKeepsCurrent ==
    [][(GetProxy /\ proxy_enabled /\ current_proxy \in Range(proxies)) =>
         /\ pret'.ret = current_proxy
         /\ current_proxy' = current_proxy
         /\ proxies' = proxies]_vars

---------------------------------------------------------------------------
(* The scan: persistence, progress, batches and the executor *)

\* the invocation is in its backfill loop or about to re-read the entry
InBackfill == scan.mode = "backfill" /\ scan.pc \in {"batch", "workers"}

\* C21: the step that ends a full scan leaves, under the key of the date and the
\* eligible tickers, a readable entry stamped with the present instant whose
\* result list is the list the scan returns; a step of a backfill never adds an
\* entry nor changes the timestamp of one, and when it changes the files it is
\* by update_missing_data for a record of a working ticker, or by the expiry
\* rule of the re-read at the end.
C21_ScanPersistence ==
    [][/\ (ScanFinish /\ scan.mode = "full") =>
            LET ck == _get_cache_key(scan.ds, scan.e_stocks)
            IN /\ ck \in DOMAIN store'
               /\ store'[ck].ok
               /\ store'[ck].timestamp = now
               /\ store'[ck].date = scan.ds
               /\ store'[ck].tickers = scan.e_stocks
               /\ scan'.ret.some
               /\ store'[ck].data = scan'.ret.v
               /\ \A k \in DOMAIN store \ {ck} : k \in DOMAIN store' /\ store'[k] = store[k]
       /\ InBackfill =>
            /\ DOMAIN store' \subseteq DOMAIN store
            /\ \A k \in DOMAIN store' : store'[k].timestamp = store[k].timestamp
            /\ store' # store =>
                 \/ /\ scan.pc = "workers"
                    /\ \E t \in Range(scan.work) : \E r \in analyze_stock(t) :
                          /\ r # <<>>
                          /\ store' = update_missing_data(store, scan.ds, scan.e_stocks,
                                                          r[1]).store
                 \/ /\ scan'.pc = "returned"
                    /\ store' = RemoveFiles(store, {_get_cache_key(scan.ds, scan.e_stocks)})
                    /\ SevenDaysOrMore(now, store[_get_cache_key(scan.ds,
                                                                scan.e_stocks)].timestamp)]_vars

\* C21 witness: a backfill returned a list that differs from the list it found
\* in the entry a full scan had written, and the entry holds the returned list
\* under the timestamp of the full scan
C21_Witness ==
    /\ scan.pc = "returned" /\ scan.mode = "backfill"
    /\ scan.ret.some /\ scan.cached.some
    /\ scan.ret.v # scan.cached.v
    /\ LET ck == _get_cache_key(scan.ds, scan.e_stocks)
       IN /\ ck \in DOMAIN store
          /\ store[ck].data = scan.ret.v
          /\ Later(now, store[ck].timestamp)

\* comparisons of progress values
FracLeq(a, b) == a.n * b.d <= b.n * a.d
FracEq(a, b) == a.n * b.d = b.n * a.d

\* C22: the progress values of a scan of a non-empty eligible list are within
\* 0..100 and never decrease; the value reported for the i-th handled future of a
\* full scan is 80 * i / total and at most 80, the one of a backfill is
\* 80 + 20 * i / total, above 80 and at most 100; one value is reported per
\* handled future, and the last value reported before the scan returns is 100.
C22_ProgressStream ==
    LET P == scan.progress
        total == Len(scan.work)
        reported == IF scan.pc = "returned" THEN Len(P) - 1 ELSE Len(P)
    IN scan.e_stocks # <<>> =>
         /\ \A i \in 1..Len(P) : FracLeq(Frac(0, 1), P[i]) /\ FracLeq(P[i], Frac(100, 1))
         /\ \A i, j \in 1..Len(P) : i < j => FracLeq(P[i], P[j])
         /\ reported = scan.done
         /\ scan.mode = "full" =>
               \A i \in 1..reported :
                  /\ FracEq(P[i], Frac(80 * i, total))
                  /\ FracLeq(P[i], Frac(80, 1))
         /\ scan.mode = "backfill" =>
               \A i \in 1..reported :
                  /\ P[i].d * total * 80 + 20 * i * P[i].d = P[i].n * total
                  /\ ~FracLeq(P[i], Frac(80, 1))
                  /\ FracLeq(P[i], Frac(100, 1))
         /\ scan.pc = "returned" => (P # <<>> /\ FracEq(P[Len(P)], Frac(100, 1)))

\* C22 witness: a backfill of two tickers returned after the values 90, 100 and
\* the closing 100
C22_Witness ==
    /\ scan.pc = "returned" /\ scan.mode = "backfill"
    /\ Len(scan.progress) = 3
    /\ FracEq(scan.progress[1], Frac(90, 1))
    /\ FracEq(scan.progress[2], Frac(100, 1))

---------------------------------------------------------------------------
(* OptionsAnalyzer: the properties of the helpers *)

\* the positions of the smallest and of the largest of the days
MinPos(days) == CHOOSE i \in 1..Len(days) : \A j \in 1..Len(days) : days[i] <= days[j]
MaxPos(days) == CHOOSE i \in 1..Len(days) : \A j \in 1..Len(days) : days[i] >= days[j]

\* C23: the term structure built from a non-empty list of days and
\* volatilities, a single pair included, returns below the smallest day exactly
\* the volatility given with the smallest day, and above the largest day exactly
\* the volatility given with the largest day.
C23_TermStructureClamps ==
    calc.op = "tspline" =>
        /\ calc.dte < calc.days[MinPos(calc.days)] =>
              calc.ret = Float(calc.ivs[MinPos(calc.days)], 1)
        /\ calc.dte > calc.days[MaxPos(calc.days)] =>
              calc.ret = Float(calc.ivs[MaxPos(calc.days)], 1)

\* C23 witness: a structure of three unsorted expiries with a falling front,
\* called above its largest day, returned the volatility of that day
C23_Witness ==
    /\ calc.op = "tspline"
    /\ calc.days = <<30, 60, 7>>
    /\ calc.ivs = <<30, 50, 50>>
    /\ calc.dte = 90
    /\ calc.ret = Float(50, 1)


\* a quote that is a number above zero
StrictlyPositive(v) == v.t = "num" /\ v.n > 0

\* C24 (as claimed): the expected move is "N/A" unless the call and the put
\* nearest to the money at the nearest expiry, the first of the filtered
\* expiries, both have a strictly positive bid and a strictly positive ask; when
\* the four quotes are strictly positive and the price is not zero it is
\* (callMid + putMid) / price as a percentage.
C24_ExpectedMove ==
    (calc.op = "expected_move" /\ calc.oc # <<>>) =>
        LET c == calc.oc[1]
            quoted == /\ ~c.empty
                      /\ StrictlyPositive(c.cbid) /\ StrictlyPositive(c.cask)
                      /\ StrictlyPositive(c.pbid) /\ StrictlyPositive(c.pask)
        IN /\ ~quoted => calc.ret = PyStr("N/A")
           /\ (quoted /\ calc.up # 0) =>
                 /\ calc.ret.s = "%"
                 /\ 2 * (calc.ret.n * calc.up
                           - (c.cbid.n + c.cask.n + c.pbid.n + c.pask.n) * 5000) <= calc.up
                 /\ 2 * ((c.cbid.n + c.cask.n + c.pbid.n + c.pask.n) * 5000
                           - calc.ret.n * calc.up) <= calc.up

\* the expiries the claim keeps: the sorted expiries up to and including the
\* first that is cutoff_days or more away, all of them when none is
ClaimedPrefix(today, dates) ==
    LET S == sorted_dates([i \in 1..Len(dates) |-> strptime(dates[i])])
        far == {i \in 1..Len(S) : S[i] - today >= cutoff_days}
        last == IF far = {} THEN Len(S) ELSE CHOOSE i \in far : \A j \in far : i <= j
    IN [i \in 1..last |-> strftime(S[i])]

\* C26 (as claimed): the filtered list is the ascending expiries up to and
\* including the first one 45 or more days away, all of them when none is that
\* far, without a same-day expiry at its front whenever another expiry remains.
C26_ExpiryFiltering ==
    calc.op = "filter_dates" =>
        LET kept == ClaimedPrefix(calc.today, calc.dates)
        IN calc.ret = IF kept # <<>> /\ kept[1] = strftime(calc.today) /\ Len(kept) > 1
                      THEN Tail(kept) ELSE kept

---------------------------------------------------------------------------
(* DataCache: the sweep and the descriptors *)

\* C25: clear_expired removes every file that cannot be read and every entry
\* that is 7 days old or older, leaves every other entry as it is, creates
\* nothing, and a second sweep at the same instant would change nothing.
C25_PurgeExpired ==
    [][ClearExpired =>
         /\ DOMAIN store' \subseteq DOMAIN store
         /\ \A k \in DOMAIN store :
               IF ~store[k].ok \/ SevenDaysOrMore(now, store[k].timestamp)
               THEN k \notin DOMAIN store'
               ELSE k \in DOMAIN store' /\ store'[k] = store[k]
         /\ clear_expired(store', now') = store']_vars

\* C25 witness: a sweep has removed an entry that had reached 7 days and has kept
\* a readable entry saved on the sixth day
C25_Witness ==
    /\ cret.op = "clear"
    /\ cret.branch = "expired"
    /\ \E k \in DOMAIN store :
          /\ store[k].ok
          /\ store[k].timestamp.d = cache_expiry_days - 1
          /\ ~SevenDaysOrMore(now, store[k].timestamp)


\* the fields of a stored result that the claim counts as missing
MissingOf(d) ==
    (IF d.expected_move = PyStr("N/A") THEN {"expected_move"} ELSE {})
    \cup (IF d.current_iv.t = "none" THEN {"current_iv"} ELSE {})
    \cup (IF d.term_structure = PyNum(0) \/ d.term_structure = PyStr("N/A")
          THEN {"term_structure"} ELSE {})

\* the positions of the results that miss a field, in ascending order
RECURSIVE Lacking(_, _)
Lacking(data, i) ==
    IF i > Len(data) THEN <<>>
    ELSE (IF MissingOf(data[i]) # {} THEN <<i>> ELSE <<>>) \o Lacking(data, i + 1)

\* C27: every readable entry, which a save or an update wrote, holds exactly one
\* descriptor for each of its results that misses a field, in the order of the
\* results, naming the ticker and the timing of the result and each missing
\* field once and no other field, and holds no descriptor for any other result.
C27_DescriptorsConsistent ==
    \A k \in DOMAIN store : store[k].ok =>
        LET data == store[k].data
            md == store[k].missing_data
            lacking == Lacking(data, 1)
        IN /\ Len(md) = Len(lacking)
           /\ \A j \in 1..Len(md) :
                 /\ md[j].ticker = data[lacking[j]].ticker
                 /\ md[j].earnings_time = data[lacking[j]].earnings_time
                 /\ Range(md[j].missing_fields) = MissingOf(data[lacking[j]])
                 /\ Len(md[j].missing_fields) = Cardinality(MissingOf(data[lacking[j]]))

\* C27 witness: an update filled the expected move of the first result of an
\* entry of two, whose descriptor now names the absent current_iv alone
C27_Witness ==
    /\ cret.op = "update" /\ cret.branch = "updated"
    /\ cret.key \in DOMAIN store
    /\ LET e == store[cret.key]
       IN /\ e.ok
          /\ Len(e.data) = 2
          /\ e.data[1].ticker = PyStr("AAA")
          /\ e.data[1].expected_move # PyStr("N/A")
          /\ Len(e.missing_data) = 2
          /\ e.missing_data[1].missing_fields = <<"current_iv">>


\* the futures of the batch submitted last
LastBatch(sc) ==
    IF sc.bi < Len(sc.batches)
    THEN (Len(sc.submitted) - Len(sc.batches[sc.bi + 1]) + 1)..Len(sc.submitted)
    ELSE {}

\* C28: in a full scan and in a backfill, the history download and the
\* submission of a batch happen only when the analysis of every future
\* submitted before has completed and none runs, and an analysis a worker
\* thread begins belongs to the batch submitted last, every future of the
\* batches before it having completed.
C28_BatchBarrier ==
    [][/\ BatchStart =>
            /\ 1..Len(scan.submitted) \subseteq scan.completed
            /\ running(scan) = {}
            /\ scan'.hist_fetches = scan'.bi + 1
       /\ WorkerStart =>
            /\ scan'.started \in LastBatch(scan)
            /\ (1..Len(scan.submitted)) \ LastBatch(scan) \subseteq scan.completed]_vars

\* C28 witness: in a backfill the first analysis of the second batch has begun,
\* after the ten analyses of the first batch have completed
C28_Witness ==
    /\ scan.mode = "backfill" /\ scan.pc = "workers"
    /\ scan.bi = 1
    /\ scan.hist_fetches = 2
    /\ scan.started = batch_size + 1
    /\ scan.completed = 1..batch_size

\* C29: while a batch is analysed, the analyses that run are at most 5 and at
\* most as many as the batch has tickers; outside a batch none runs.
C29_BoundedConcurrency ==
    /\ scan.pc = "workers" =>
          /\ Cardinality(running(scan)) <= pool_cap
          /\ Cardinality(running(scan)) <= Len(scan.batches[scan.bi + 1])
    /\ scan.pc # "workers" => running(scan) = {}

\* C29 witness: five analyses of a batch of ten run while the other five wait
C29_Witness ==
    /\ scan.pc = "workers"
    /\ Len(scan.batches[scan.bi + 1]) = batch_size
    /\ Cardinality(running(scan)) = pool_cap
    /\ scan.started = pool_cap
    /\ scan.completed = {}

\* the batches joined in order
RECURSIVE Concat(_)
Concat(ss) == IF ss = <<>> THEN <<>> ELSE Head(ss) \o Concat(Tail(ss))

\* C30: the batches of a scan, joined in order, are the working list; each has at
\* most 10 tickers and each but the last exactly 10; the futures submitted so
\* far are the tickers of the batches submitted so far, in the order of the
\* working list, and when the scan has returned each position of the working
\* list was submitted once and analysed once.
C30_BatchesPartition ==
    scan.mode \in {"full", "backfill"} =>
        /\ Concat(scan.batches) = scan.work
        /\ \A k \in 1..Len(scan.batches) :
              /\ Len(scan.batches[k]) >= 1
              /\ Len(scan.batches[k]) <= batch_size
              /\ k < Len(scan.batches) => Len(scan.batches[k]) = batch_size
        /\ Len(scan.submitted) <= Len(scan.work)
        /\ scan.submitted = SubSeq(scan.work, 1, Len(scan.submitted))
        /\ scan.pc = "returned" =>
              /\ scan.submitted = scan.work
              /\ scan.completed = 1..Len(scan.work)
              /\ scan.analysed = Len(scan.work)

\* C30 witness: a scan of 11 tickers returned after a batch of 10 and a batch of 1
C30_Witness ==
    /\ scan.pc = "returned" /\ scan.mode = "full"
    /\ Len(scan.work) = batch_size + 1
    /\ Len(scan.batches) = 2
    /\ Len(scan.batches[2]) = 1
    /\ scan.submitted = scan.work


---------------------------------------------------------------------------
(* The proxy pool and the sessions under concurrent use.                   *)

NoDuplicates(ps) == \A i, j \in 1..Len(ps) : ps[i] = ps[j] => i = j

\* the step of a build that assigns self.proxies
Installs == build.pc = "validating" /\ build'.pc = "idle"

\* C31: a build with max_proxies >= 1 installs at most max_proxies proxies, all
\* of them candidates whose validation succeeded, no address twice, and
\* self.proxies changes in that one step only: until then every reader sees
\* the pool of before the build, afterwards the whole new one.
C31_PoolInstalledWhole ==
    [][/\ Installs =>
            /\ build.max_proxies >= 1
            /\ proxies' = build.valid
            /\ Len(proxies') <= build.max_proxies
            /\ Range(proxies') \subseteq (build.ok \cap Range(build.cands))
            /\ NoDuplicates(proxies')
       /\ ~Installs => proxies' = proxies]_vars

\* a build stopped at max_proxies = 2 with three candidates that validate
C31_Witness ==
    /\ pret.op = "build"
    /\ build.pc = "idle"
    /\ build.max_proxies = 2
    /\ Len(proxies) = 2
    /\ Cardinality(build.ok \cap Range(build.cands)) = 3


\* C32 (as claimed): in every state the session of each session manager is bound
\* to a member of the pool when proxies are enabled and the pool is not empty,
\* and is a direct session otherwise.
C32_SessionFollowsPool ==
    \A m \in Managers :
        IF proxy_enabled /\ proxies # <<>> THEN session[m] \in Range(proxies)
        ELSE session[m] = NoProxy


\* every worker's call of rotate_session has returned
AllRotated == \A w \in Workers : rot[w].pc = "done"

\* C33 (as claimed): once the concurrent calls of rotate_session have all
\* returned, the analyzer's session is bound to the proxy the pool records as
\* current.
C33_SessionIsCurrentAfterRotations ==
    AllRotated => session["analyzer"] = current_proxy


\* C34 (as claimed): when a backfill returned and every re-analysis it handled
\* gave a record with complete data, the entry of the scan lists no missing
\* field any more, so the next scan of the same date and tickers takes the
\* cache-hit path without a fetch.
C34_BackfillConverges ==
    (scan.pc = "returned" /\ scan.mode = "backfill" /\ scan.refilled /\ scan.ret.some) =>
        LET o == get_data(store, now, scan.ds, scan.e_stocks)
        IN o.branch = "hit" => o.missing = <<>>


\* the tier the score rule of analyze_stock gives the stored fields of a record
ScoreOf(d) == recommendation(d["avg_volume"].n = 1, d["iv30_rv30"], d["term_slope"])

\* C35 (as claimed): every record of every readable entry carries the tier the
\* score rule gives its own stored avg_volume, iv30_rv30 and term_slope.
C35_TierMatchesStoredScore ==
    \A k \in DOMAIN store :
        store[k].ok =>
            \A i \in 1..Len(store[k].data) :
                store[k].data[i]["recommendation"] = PyStr(ScoreOf(store[k].data[i]))


\* C36: update_missing_data creates and removes no entry and changes none but
\* the entry of its key; of that entry it keeps the timestamp, the scan date and
\* the ticker list, the number of records and the ticker at every position, and
\* every record whose ticker is not the ticker of the update; when no entry
\* exists, or the file cannot be read, the call changes nothing and returns.
C36_MergeFrame ==
    [][\A r \in RecordSamples :
          (cret'.op = "update" /\ UpdateMissingData(cret'.date, cret'.tickers, r)) =>
              LET ck == cret'.key
              IN /\ DOMAIN store' = DOMAIN store
                 /\ \A k \in DOMAIN store \ {ck} : store'[k] = store[k]
                 /\ (ck \notin DOMAIN store \/ ~store[ck].ok) =>
                        store' = store /\ cret'.branch = "error"
                 /\ (ck \in DOMAIN store /\ store[ck].ok) =>
                        /\ store'[ck].ok
                        /\ store'[ck].timestamp = store[ck].timestamp
                        /\ store'[ck].date = store[ck].date
                        /\ store'[ck].tickers = store[ck].tickers
                        /\ Len(store'[ck].data) = Len(store[ck].data)
                        /\ \A i \in 1..Len(store[ck].data) :
                              /\ store'[ck].data[i]["ticker"] = store[ck].data[i]["ticker"]
                              /\ store[ck].data[i]["ticker"] # r["ticker"] =>
                                    store'[ck].data[i] = store[ck].data[i]]_vars

\* an update filled the error record of BBB and left the error record of AAA,
\* the timestamp of the save a day earlier and the order of the records
C36_Witness ==
    /\ cret.op = "update" /\ cret.branch = "updated"
    /\ LET ck == _get_cache_key(cret.date, cret.tickers)
       IN /\ ck \in DOMAIN store
          /\ Len(store[ck].data) = 2
          /\ store[ck].data[1]["ticker"] = PyStr("BBB")
          /\ store[ck].data[1]["iv30_rv30"] = PyNum(130)
          /\ store[ck].data[2] = ErrA


\* a scan returned a list by the cache-hit path, with or without a backfill
CacheHitReturned ==
    scan.pc = "returned" /\ scan.mode \in {"cached", "backfill"} /\ scan.ret.some

\* C37: the list a scan returns by the cache-hit path is in ascending order of
\* the ranking of a full scan, and it holds at every position the ticker, the
\* recommendation and the earnings_time the entry held there when the scan
\* read it: the merges of a backfill change none of the three.
C37_CacheHitListRanked ==
    CacheHitReturned =>
        /\ \A i, j \in 1..Len(scan.ret.v) :
              i < j => RankedBefore(scan.ret.v[i], scan.ret.v[j])
        /\ scan.cached.some
        /\ Len(scan.ret.v) = Len(scan.cached.v)
        /\ \A i \in 1..Len(scan.ret.v) :
              /\ scan.ret.v[i]["ticker"] = scan.cached.v[i]["ticker"]
              /\ scan.ret.v[i]["recommendation"] = scan.cached.v[i]["recommendation"]
              /\ scan.ret.v[i]["earnings_time"] = scan.cached.v[i]["earnings_time"]

\* a backfill filled the error record of a ticker with the fields of a record
\* scored Recommended, and returned it still ranked as Avoid
C37_Witness ==
    /\ CacheHitReturned
    /\ scan.mode = "backfill"
    /\ Len(scan.ret.v) >= 2
    /\ \E i \in 1..Len(scan.ret.v) :
          /\ scan.cached.v[i] = ErrorResult(scan.cached.v[i]["ticker"].s,
                                            scan.cached.v[i]["earnings_time"].s)
          /\ scan.ret.v[i]["recommendation"] = PyStr("Avoid")
          /\ scan.ret.v[i]["iv30_rv30"] = PyNum(150)
          /\ scan.ret.v[i]["expected_move"] = PyStr("5.0%")


---------------------------------------------------------------------------
(* The data source and the retry loops.                                    *)

\* C38: in an analyzer constructed with use_finviz, no history call of the price
\* lookup succeeds and the computation never gets past it: whatever
\* compute_recommendation returns is an error marker, and the record
\* analyze_stock builds for the ticker is the error record, with tier Avoid and
\* expected move "N/A".
C38_FinvizAlwaysAvoid ==
    reco.use_finviz =>
        /\ reco.pc # "rest"
        /\ \A i \in CallsOf(reco.log, "history") : ~reco.log[i].ok
        /\ (reco.pc \in {"computed", "returned"} /\ reco.od # NoOd) => reco.od.kind = "error"
        /\ (reco.pc = "returned" /\ reco.record # <<>>) =>
              /\ reco.record[1] = ErrorResult(reco.symbol, get_earnings_time(reco.symbol))
              /\ reco.record[1]["recommendation"] = PyStr("Avoid")
              /\ reco.record[1]["expected_move"] = PyStr("N/A")

\* the third price attempt of the third ticker-level attempt failed on a
\* FinvizTicker whose chains had been fetched, and the ticker got the error record
C38_Witness ==
    /\ reco.use_finviz
    /\ reco.pc = "returned"
    /\ reco.attempt = attempts - 1
    /\ reco.pa = attempts - 1
    /\ reco.ei = Len(reco.exps)
    /\ reco.record # <<>>
    /\ reco.record[1]["recommendation"] = PyStr("Avoid")


\* the steps one ticker-level attempt can take: t.options, two requests per
\* expiry, the price attempts and the measures
PerAttempt(r) == 1 + 2 * Len(r.exps) + attempts + 1

\* an upper bound of the steps the analysis of a ticker still has to take
StepsLeft(r) ==
    LET within ==
            CASE r.pc = "options" -> PerAttempt(r)
              [] r.pc = "chain" -> 2 * (Len(r.exps) - r.ei + 1) + attempts + 1
              [] r.pc = "retry" -> 2 * (Len(r.exps) - r.ei) + 1 + attempts + 1
              [] r.pc = "price" -> (attempts - r.pa) + 1
              [] OTHER -> 1
    IN CASE r.pc \in {"idle", "returned"} -> 0
         [] r.pc = "computed" -> 1
         [] OTHER -> 1 + (attempts - 1 - r.attempt) * PerAttempt(r) + within

\* the passes the calendar fetch still has to make
PassesLeft(f) == IF f.pc = "attempt" THEN max_retries - f.attempt ELSE 0

\* C39: the retry loops end.  Every step of the analysis of a ticker, whether
\* its provider call succeeded or failed, lowers a count that starts at
\* 1 + 3 * (2 * expiries + 5) at most and never goes below 0, and every pass of
\* the calendar fetch lowers a count that starts at 3; an attempt makes at most 3
\* price requests, 2 chain requests per expiry and one rotation per failed
\* request (with the one of the handler that started it, at most expiries + 3),
\* and a calendar fetch at most 3 requests and 2 rotations.  So fetch_earnings_data and
\* analyze_stock return in a bounded number of provider calls and rotations,
\* and with them every future of a scan.
C39_RetryLoopsEnd ==
    [][/\ (reco.pc \notin {"idle", "returned"} /\ reco' # reco) =>
             StepsLeft(reco') < StepsLeft(reco)
       /\ StepsLeft(reco') >= 0
       /\ StepsLeft(reco') <= 1 + attempts * PerAttempt(reco')
       /\ reco'.attempt < attempts
       /\ Cardinality(CallsOf(reco'.log, "history")) <= attempts
       /\ \A i \in 1..Len(reco'.exps) :
             Cardinality(Calls(reco'.log, "option_chain", reco'.exps[i])) <= 2
       /\ Cardinality(CallsOf(reco'.log, "rotate_session")) <= Len(reco'.exps) + attempts
       /\ (fetch.pc = "attempt" /\ fetch' # fetch) => PassesLeft(fetch') < PassesLeft(fetch)
       /\ PassesLeft(fetch') >= 0
       /\ Cardinality(CallsOf(fetch'.log, "post")) <= max_retries
       /\ Cardinality(CallsOf(fetch'.log, "rotate_session")) <= max_retries - 1]_vars

\* the worst case: the calendar fetch failed three times, and the analysis of a
\* ticker with two expiries failed its third price request in its third attempt
C39_Witness ==
    /\ fetch.pc = "returned"
    /\ fetch.attempt = max_retries
    /\ Cardinality(CallsOf(fetch.log, "rotate_session")) = max_retries - 1
    /\ reco.pc = "returned"
    /\ reco.attempt = attempts - 1
    /\ reco.pa = attempts - 1
    /\ Len(reco.exps) = 2
    /\ reco.ei = 2
    /\ reco.od.kind = "error"

=============================================================================
